---- MODULE Spec2Model ----
(***************************************************************************)
(* LocoClient (src/kakaotalk_cli/client.py): one session that multiplexes  *)
(* concurrent requests over one connection by packet id, runs a single     *)
(* background receive loop and dispatches unsolicited pushes.              *)
(*                                                                         *)
(* The session runs on one asyncio event loop: the code between two        *)
(* awaits of a coroutine is one atomic step, so every action below is the  *)
(* code from one await to the next.  The server and the transport are the  *)
(* environment: the receive loop may read any frame at any time.           *)
(* connect() and disconnect() are issued by one controlling caller, one    *)
(* after the other, and a session is given one transport (connect() is     *)
(* retried only after open_connection failed); sends and on_push come from *)
(* any number of tasks.  SpecReconnect adds connect() on a connected       *)
(* session, SpecFraming follows the loop's reads byte by byte, and         *)
(* SpecBootstrap runs full_connect() on a fresh session.                   *)
(***************************************************************************)
EXTENDS Integers, Sequences, FiniteSets, TLC

\* ---------------------------------------------------------------- bounds
\* Number of send_command calls issued on the session.
MaxSends == 2
\* Number of on_push registrations made on the session.
MaxRegs == 2
\* Number of send_command calls issued while push handlers are registered.
PushSends == 1
\* Number of receive tasks a repeated connect() may leave behind.
MaxOrphans == 1
\* Number of frames in a received byte stream, and the longest body.
MaxFrames == 2
MaxBody == 1
\* The longest method, in bytes, given to the codec.
MaxMethod == 12
\* The most element bytes in a document body.
MaxDoc == 2
\* The longest plaintext, in bytes, given to the encryptor.
MaxPlain == 17

\* ------------------------------------------------------------- constants
\* Caller tasks that issue one send_command each.
Calls == 1..MaxSends
\* Packet ids a received frame can carry: every id the builder can issue,
\* and 0, an id the builder never issues (PacketBuilder starts at 1).
RecvIds == 0..MaxSends
\* Methods a received frame can carry.
Methods == {"MSG", "KICKOUT"}
\* Callables registered with on_push: the k-th registration's callable is
\* named k (a callable registered twice counts once per registration).
Handlers == 1..MaxRegs

\* The booking server's port; the LOCO ports tried when the configuration
\* names none.
BOOKING_PORT == 443
LOCO_PORTS == <<5223, 5228, 9282, 5242, 10009, 995, 8080>>
DEFAULT_LOCO_PORT == 5223

\* LocoPacket.HEADER_SIZE; the legacy size field; the IV of a legacy frame.
HEADER_SIZE == 22
SIZE_FIELD == 4
IV_SIZE == 16

\* The width of the method field of a packet header.
METHOD_SIZE == 11

\* The handshake constants of crypto.py and the byte length of the modulus
\* of the embedded RSA key.
HANDSHAKE_KEY_SIZE == 256
HANDSHAKE_KEY_ENCRYPT_TYPE == 16
HANDSHAKE_ENCRYPT_TYPE == 2
RSA_MODULUS_SIZE == 256

\* A decoded LocoPacket, reduced to the two fields the session reads.
Packet == [packet_id : RecvIds, method : Methods]
NoPkt == [packet_id |-> -1, method |-> "-"]

VARIABLES
  connected,      \* LocoClient._connected
  use_tls,        \* LocoClient._use_tls
  encryptor,      \* LocoClient._encryptor is not None
  writer,         \* LocoClient._writer: "none" | "open" | "closing" | "closed"
  pending,        \* keys of LocoClient._pending
  fut,            \* state of the future created for each packet id
  futRes,         \* result of that future
  push_handlers,  \* LocoClient._push_handlers
  next_id,        \* PacketBuilder._next_id
  rlPc,           \* the receive task: "none" | "read" | "push" | "ended"
  rlPkt,          \* the packet the receive loop is handling
  rlIdx,          \* handlers of rlPkt's list the for loop has passed
  rlErr,          \* the exception that ended the receive loop
  cancelReq,      \* Task.cancel() was called on the running receive task
  pushLog,        \* handlers invoked for rlPkt, in order, and whether each raised
  pc,             \* each send_command call's position
  reqId,          \* each call's request packet id
  ret,            \* the packet each call returned
  written,        \* frames written to the current transport, in order
  conPc,          \* connect(): "idle" | "opening" | "hsdrain"
  dPc,            \* disconnect(): "idle" | "awaitTask" | "awaitClose"
  dRes,           \* how the last finished disconnect() ended: "none" | "ok" | "raised"
  orphans,        \* receive tasks still running that _receive_task no longer names
  rxLens,         \* body lengths of the frames the server sends, in order
  rxAvail,        \* bytes of the stream the socket has delivered to the reader
  rxPos,          \* bytes of the stream the receive loop has consumed
  rxPc,           \* the read the loop is in: "header" | "body" | "failed"
  rxNeed,         \* body_length / size taken from the header just read
  rxHeld,         \* header_data kept for the decode
  rxOut,          \* packets decoded so far, in order
  fcPc,           \* full_connect(): "idle" | "booking" | "checkin" | "connect" | "login" | "done"
  fcRes,          \* what full_connect() returned: "none" | "True" | "False"
  fcLog,          \* the connections and requests full_connect() started, in order
  fcHosts,        \* full_connect()'s checkin_hosts
  fcCfg,          \* the wifi.ports part of the config booking() returned
  ckHost,         \* checkin()'s checkin_host argument
  oneshots,       \* the finished _loco_oneshot exchanges and their connections
  ckPort,         \* checkin()'s checkin_port argument
  ckIdx,          \* position of the running attempt in checkin()'s variant list
  ckTried,        \* the finished checkin attempts and how each ended
  ckErr,          \* the exception checkin() raised
  ckData,         \* the dict checkin() returned
  user_id,        \* LocoClient.user_id
  chat_rooms,     \* LocoClient.chat_rooms: chat id -> ChatRoom
  credentials,    \* the KakaoCredentials the caller supplied
  loginRet,       \* the body login() returned
  cdPc,           \* the codec run: "new" | "packet" | "encoded" | "decoded"
  cdArgs,         \* the method, body and status a packet is made from
  cdPkt,          \* the LocoPacket
  cdEnc,          \* cdPkt.encode()
  cdHdr,          \* LocoPacket.decode_header(cdEnc[:22])
  cdIn,           \* the bytes handed to LocoPacket.decode
  cdOut,          \* what LocoPacket.decode returned or raised
  crPc,           \* the cipher run: "new" | "encrypted" | "decrypted"
  crKey,          \* LocoEncryptor.aes_key
  crIv,           \* the IV os.urandom(16) returns in encrypt()
  crPlain,        \* the plaintext
  crFrame,        \* encrypt(plaintext)
  crOut,          \* decrypt(frame[4:])
  hRun,           \* push handler invocations that are suspended at an await
  hSent           \* the send_command calls that were issued by push handlers

locoVars == <<connected, use_tls, encryptor, writer, pending, fut, futRes,
              push_handlers, next_id, rlPc, rlPkt, rlIdx, rlErr, cancelReq,
              pushLog, pc, reqId, ret, written, conPc, dPc, dRes, orphans>>
rxVars == <<rxLens, rxAvail, rxPos, rxPc, rxNeed, rxHeld, rxOut>>
loginVars == <<user_id, chat_rooms, credentials, loginRet>>
fcVars == <<fcPc, fcRes, fcLog, fcHosts, fcCfg, ckHost, oneshots, ckPort, ckIdx, ckTried, ckErr, ckData, loginVars>>
cdVars == <<cdPc, cdArgs, cdPkt, cdEnc, cdHdr, cdIn, cdOut>>
crVars == <<crPc, crKey, crIv, crPlain, crFrame, crOut>>
pureVars == <<cdVars, crVars>>
hVars == <<hRun, hSent>>
extVars == <<rxVars, fcVars, pureVars, hVars, hVars>>
vars == <<locoVars, extVars>>

sessVars == <<connected, use_tls, encryptor, writer>>
mapVars == <<pending, fut, futRes>>
loopVars == <<rlPc, rlPkt, rlIdx, rlErr, cancelReq, pushLog, orphans>>
callVars == <<pc, reqId, ret>>
ctlVars == <<conPc, dPc, dRes>>

\* No byte stream is being followed.
RxIdle ==
  /\ rxLens = <<>>
  /\ rxAvail = 0
  /\ rxPos = 0
  /\ rxPc = "header"
  /\ rxNeed = 0
  /\ rxHeld = <<>>
  /\ rxOut = <<>>

\* What checkin() has returned or raised before it was called.
NoData == [host |-> "", port |-> 0, use_tls |-> TRUE]
NoErr == [type |-> "none", causes |-> <<>>]
\* The configuration before booking() returned one.
NoCfg == [hasPorts |-> FALSE, ports |-> <<>>]

\* A value decode or decode_header has not produced.
NoResult == [err |-> "-"]

\* No packet is being encoded or decoded.
CdIdle ==
  /\ cdPc = "new"
  /\ cdArgs = [method |-> <<>>, body |-> <<>>, status_code |-> 0]
  /\ cdPkt = NoResult
  /\ cdEnc = <<>>
  /\ cdHdr = NoResult
  /\ cdIn = <<>>
  /\ cdOut = NoResult

\* No plaintext is being encrypted.
CrIdle ==
  /\ crPc = "new"
  /\ crKey = <<>>
  /\ crIv = <<>>
  /\ crPlain = <<>>
  /\ crFrame = <<>>
  /\ crOut = <<>>

\* No push handler is suspended and none has sent.
HIdle ==
  /\ hRun = {}
  /\ hSent = {}

\* The fields of the caller's KakaoCredentials that the client reads.
CallerCredentials == [oauth_token |-> "token", user_id |-> 7, device_uuid |-> "uuid"]
\* chat_rooms as __init__ leaves it; what login() has returned before it ran.
NoRooms == [id \in {} |-> 0]
NoBody == [k \in {"-"} |-> 0]

\* full_connect() has not been called; user_id is 0 as __init__ sets it.
FcIdle ==
  /\ fcPc = "idle"
  /\ fcRes = "none"
  /\ fcLog = <<>>
  /\ fcHosts = <<>>
  /\ fcCfg = NoCfg
  /\ ckHost = ""
  /\ oneshots = <<>>
  /\ ckPort = 0
  /\ ckIdx = 0
  /\ ckTried = <<>>
  /\ ckErr = NoErr
  /\ ckData = NoData
  /\ user_id = 0
  /\ chat_rooms = NoRooms
  /\ credentials = CallerCredentials
  /\ loginRet = NoBody

\* LocoClient.__init__ and PacketBuilder.__init__
LocoInit ==
  /\ connected = FALSE
  /\ use_tls = TRUE
  /\ encryptor = FALSE
  /\ writer = "none"
  /\ pending = {}
  /\ fut = [i \in Calls |-> "none"]
  /\ futRes = [i \in Calls |-> NoPkt]
  /\ push_handlers = [m \in Methods |-> <<>>]
  /\ next_id = 1
  /\ rlPc = "none"
  /\ rlPkt = NoPkt
  /\ rlIdx = 0
  /\ rlErr = "none"
  /\ cancelReq = FALSE
  /\ pushLog = <<>>
  /\ pc = [c \in Calls |-> "idle"]
  /\ reqId = [c \in Calls |-> 0]
  /\ ret = [c \in Calls |-> NoPkt]
  /\ written = <<>>
  /\ conPc = "idle"
  /\ dPc = "idle"
  /\ dRes = "none"
  /\ orphans = 0

\* A fresh session; no byte stream, bootstrap, codec or cipher run.
Init ==
  /\ LocoInit
  /\ RxIdle
  /\ FcIdle
  /\ CdIdle
  /\ CrIdle
  /\ HIdle

\* ------------------------------------------------------------ connect()
\* asyncio.create_task(self._receive_loop()): a fresh task, suspended in its
\* first read.  _receive_task is overwritten: a task it named that is still
\* running keeps running, and nothing refers to it any more.
StartTask ==
  /\ orphans' = IF rlPc \in {"read", "push"} THEN orphans + 1 ELSE orphans
  /\ rlPc' = "read"
  /\ rlPkt' = NoPkt
  /\ rlIdx' = 0
  /\ rlErr' = "none"
  /\ cancelReq' = FALSE
  /\ pushLog' = <<>>

\* struct.pack("<I", n), "<H": n in w little-endian bytes.
LE(n, w) == [i \in 1..w |-> (n \div (256 ^ (i - 1))) % 256]

\* A 16-byte key or IV, one of the values os.urandom(16) can return.
Block16(seed) == [j \in 1..IV_SIZE |-> (j * 11 + seed) % 256]

\* PKCS1_OAEP.new(rsa_key, hashAlgo=SHA1).encrypt(aes_key): as many bytes
\* as the modulus of the embedded 2048-bit key.
RsaOaep(aes_key) ==
  [i \in 1..RSA_MODULUS_SIZE |-> (aes_key[((i - 1) % IV_SIZE) + 1] * 3 + i) % 256]

\* LocoEncryptor.build_handshake_packet
build_handshake_packet(aes_key) ==
  LE(HANDSHAKE_KEY_SIZE, 4) \o LE(HANDSHAKE_KEY_ENCRYPT_TYPE, 4)
    \o LE(HANDSHAKE_ENCRYPT_TYPE, 4) \o RsaOaep(aes_key)

\* The blob of LocoEncryptor.build_handshake_packet, as one frame of the
\* size the blob has.
HandshakeFrame ==
  [kind |-> "handshake", packet_id |-> 0,
   size |-> Len(build_handshake_packet(Block16(3)))]
\* A write that hands the transport the 22 header bytes only, the body being
\* left for a second write after the drain.
RequestFrameHeaderOnly(id) == [kind |-> "header", packet_id |-> id]

\* The frame _send_packet hands to writer.write in one call: the encoded
\* packet, or in legacy mode the encrypted frame built from it.
RequestFrame(id) == [kind |-> "request", packet_id |-> id]

\* connect(host, port, use_tls) up to its first await (open_connection).
ConnectStart(tls) ==
  /\ conPc = "idle"
  /\ dPc = "idle"
  /\ rlPc = "none"
  /\ writer = "none"
  /\ use_tls' = tls
  /\ conPc' = "opening"
  /\ UNCHANGED <<connected, encryptor, writer, mapVars, push_handlers, next_id,
                 loopVars, callVars, written, dPc, dRes>>
  /\ UNCHANGED extVars

\* open_connection raises: connect() raises.
ConnectOpenFail ==
  /\ conPc = "opening"
  /\ conPc' = "idle"
  /\ UNCHANGED <<sessVars, mapVars, push_handlers, next_id, loopVars, callVars,
                 written, dPc, dRes>>
  /\ UNCHANGED extVars

\* A connect() that marks the session connected and creates the receive task
\* as soon as the handshake is written, without awaiting its drain().
ConnectOpenedEager ==
  /\ conPc = "opening"
  /\ writer' = "open"
  /\ written' = IF use_tls THEN <<>> ELSE <<HandshakeFrame>>
  /\ encryptor' = (encryptor \/ ~use_tls)
  /\ connected' = TRUE
  /\ StartTask
  /\ conPc' = "idle"
  /\ UNCHANGED <<use_tls, mapVars, push_handlers, next_id, callVars, dPc, dRes>>
  /\ UNCHANGED extVars

\* open_connection returns.  TLS: the session is marked connected and the
\* receive task is created.  Legacy: the encryptor is created, the handshake is
\* written and connect() awaits drain().
ConnectOpened ==
  /\ conPc = "opening"
  /\ writer' = "open"
  /\ IF use_tls
       THEN /\ written' = <<>>
            /\ connected' = TRUE
            /\ StartTask
            /\ conPc' = "idle"
            /\ UNCHANGED encryptor
       ELSE /\ written' = <<HandshakeFrame>>
            /\ encryptor' = TRUE
            /\ conPc' = "hsdrain"
            /\ UNCHANGED <<connected, loopVars>>
  /\ UNCHANGED <<use_tls, mapVars, push_handlers, next_id, callVars, dPc, dRes>>
  /\ UNCHANGED extVars

\* Legacy: drain() of the handshake returns.
ConnectHandshakeFlushed ==
  /\ conPc = "hsdrain"
  /\ connected' = TRUE
  /\ StartTask
  /\ conPc' = "idle"
  /\ UNCHANGED <<use_tls, encryptor, writer, mapVars, push_handlers, next_id,
                 callVars, written, dPc, dRes>>
  /\ UNCHANGED extVars

\* Legacy: drain() of the handshake raises: connect() raises.
ConnectHandshakeFail ==
  /\ conPc = "hsdrain"
  /\ conPc' = "idle"
  /\ UNCHANGED <<sessVars, mapVars, push_handlers, next_id, loopVars, callVars,
                 written, dPc, dRes>>
  /\ UNCHANGED extVars

\* --------------------------------------------------------- disconnect()
TaskRunning == rlPc \in {"read", "push"}

\* connect() called on a session whose receive task is running: connect()
\* has no guard, it overwrites _use_tls and opens a second connection.
ConnectAgain(tls) ==
  /\ conPc = "idle"
  /\ dPc = "idle"
  /\ TaskRunning
  /\ orphans < MaxOrphans
  /\ use_tls' = tls
  /\ conPc' = "opening"
  /\ UNCHANGED <<connected, encryptor, writer, mapVars, push_handlers, next_id,
                 loopVars, callVars, written, dPc, dRes>>
  /\ UNCHANGED extVars

\* A receive task that connect() left behind stays suspended in its read
\* until that read raises; the except clauses then set _connected = False
\* on the session and the task ends.
OrphanEnds ==
  /\ orphans > 0
  /\ orphans' = orphans - 1
  /\ connected' = FALSE
  /\ UNCHANGED <<use_tls, encryptor, writer, mapVars, push_handlers, next_id,
                 rlPc, rlPkt, rlIdx, rlErr, cancelReq, pushLog, callVars,
                 written, ctlVars>>
  /\ UNCHANGED extVars

\* `if self._writer:` close it and await wait_closed(); else return.
\* close() starts closing an open transport and does nothing to one that is
\* closing or closed.
CloseWriter ==
  IF writer # "none"
    THEN /\ writer' = IF writer = "open" THEN "closing" ELSE writer
         /\ dPc' = "awaitClose"
         /\ UNCHANGED dRes
    ELSE /\ dPc' = "idle"
         /\ dRes' = "ok"
         /\ UNCHANGED writer

\* A disconnect() that cancels the receive task without `if self._receive_task`.
DisconnectStartUnguarded ==
  /\ dPc = "idle"
  /\ conPc = "idle"
  /\ connected' = FALSE
  /\ IF rlPc = "none"
       THEN /\ dPc' = "idle"
            /\ dRes' = "raised"
            /\ UNCHANGED <<writer, cancelReq>>
       ELSE IF TaskRunning
         THEN /\ cancelReq' = TRUE
              /\ dPc' = "awaitTask"
              /\ UNCHANGED <<writer, dRes>>
         ELSE /\ CloseWriter
              /\ UNCHANGED cancelReq
  /\ UNCHANGED <<use_tls, encryptor, mapVars, push_handlers, next_id, rlPc, rlPkt,
                 rlIdx, rlErr, pushLog, callVars, written, conPc>>
  /\ UNCHANGED orphans
  /\ UNCHANGED extVars

\* A disconnect() that closes the transport and leaves the receive task
\* running: the cancel and the await of the task are missing.
DisconnectStartNoCancel ==
  /\ dPc = "idle"
  /\ conPc = "idle"
  /\ connected' = FALSE
  /\ CloseWriter
  /\ UNCHANGED cancelReq
  /\ UNCHANGED <<use_tls, encryptor, mapVars, push_handlers, next_id, rlPc, rlPkt,
                 rlIdx, rlErr, pushLog, callVars, written, conPc>>
  /\ UNCHANGED orphans
  /\ UNCHANGED extVars

\* disconnect() up to its first await.  A running task is cancelled and
\* awaited; a finished task is awaited without suspending; without a task the
\* call goes on to the writer.
DisconnectStart ==
  /\ dPc = "idle"
  /\ conPc = "idle"
  /\ connected' = FALSE
  /\ IF TaskRunning
       THEN /\ cancelReq' = TRUE
            /\ dPc' = "awaitTask"
            /\ UNCHANGED <<writer, dRes>>
       ELSE /\ CloseWriter
            /\ UNCHANGED cancelReq
  /\ UNCHANGED <<use_tls, encryptor, mapVars, push_handlers, next_id, rlPc, rlPkt,
                 rlIdx, rlErr, pushLog, callVars, written, conPc>>
  /\ UNCHANGED orphans
  /\ UNCHANGED extVars

\* `await self._receive_task` returns (or raises CancelledError, swallowed).
DisconnectTaskDone ==
  /\ dPc = "awaitTask"
  /\ rlPc = "ended"
  /\ CloseWriter
  /\ UNCHANGED <<connected, use_tls, encryptor, mapVars, push_handlers, next_id,
                 loopVars, callVars, written, conPc>>
  /\ UNCHANGED extVars

\* The transport is closed: `await self._writer.wait_closed()` returns or
\* raises (swallowed).
DisconnectClosed ==
  /\ dPc = "awaitClose"
  /\ writer' = "closed"
  /\ dPc' = "idle"
  /\ dRes' = "ok"
  /\ UNCHANGED <<connected, use_tls, encryptor, mapVars, push_handlers, next_id, loopVars, callVars,
                 written, conPc>>
  /\ UNCHANGED extVars

\* ------------------------------------------------------ _receive_loop()
\* A matcher that resolves the oldest registered slot, whatever the packet's id.
MatchSlotOldest(packet, pend) ==
  IF pend # {} THEN {CHOOSE i \in pend : \A j \in pend : i <= j} ELSE {}

\* `if packet.packet_id in self._pending`: the slot the packet resolves.
MatchSlot(packet, pend) ==
  IF packet.packet_id \in pend THEN {packet.packet_id} ELSE {}

\* A loop whose error path also throws away the slots still registered.
EndLoopDroppingSlots(err, pend) ==
  /\ rlErr' = err
  /\ rlPc' = "ended"
  /\ connected' = FALSE
  /\ pending' = {}

\* The except clauses that print and set _connected = False; `pend` is the
\* pending map as the try body left it.
EndLoop(err, pend) ==
  /\ rlErr' = err
  /\ rlPc' = "ended"
  /\ connected' = FALSE
  /\ pending' = pend

\* `while self._connected`: the next iteration's read, or the loop's end.
NextIteration == IF connected THEN "read" ELSE "ended"

\* readexactly() returned a whole frame and LocoPacket.decode decoded it.
\* A matched id pops its slot and sets the future's result; set_result on a
\* future that wait_for cancelled raises InvalidStateError, which the loop's
\* `except Exception` catches.  An unmatched id starts the push dispatch.
RecvFrame(f) ==
  /\ rlPc = "read"
  /\ ~cancelReq
  /\ LET slot == MatchSlot(f, pending) IN
     IF slot # {}
       THEN LET id == CHOOSE i \in slot : TRUE IN
            /\ IF fut[id] = "pending"
                 THEN /\ pending' = pending \ {id}
                      /\ fut' = [fut EXCEPT ![id] = "result"]
                      /\ futRes' = [futRes EXCEPT ![id] = f]
                      /\ rlPc' = NextIteration
                      /\ UNCHANGED <<connected, rlPkt, rlErr>>
                 ELSE /\ EndLoop("InvalidStateError", pending \ {id})
                      /\ rlPkt' = f
                      /\ UNCHANGED <<fut, futRes>>
            /\ UNCHANGED <<rlIdx, pushLog>>
       ELSE /\ rlPc' = "push"
            /\ rlPkt' = f
            /\ rlIdx' = 0
            /\ pushLog' = <<>>
                      /\ UNCHANGED <<connected, mapVars, rlErr>>
  /\ UNCHANGED <<use_tls, encryptor, writer, push_handlers, next_id, cancelReq,
                 callVars, written, ctlVars>>
  /\ UNCHANGED orphans
  /\ UNCHANGED extVars

\* A loop that, when the connection closes, completes every pending future
\* with an empty result instead of leaving it.
RecvEOFCompletingSlots ==
  /\ rlPc = "read"
  /\ ~cancelReq
  /\ EndLoop("IncompleteReadError", {})
  /\ fut' = [i \in Calls |-> IF i \in pending /\ fut[i] = "pending"
                               THEN "result" ELSE fut[i]]
  /\ UNCHANGED <<use_tls, encryptor, writer, futRes, push_handlers, next_id,
                 rlPkt, rlIdx, cancelReq, pushLog, callVars, written, ctlVars>>
  /\ UNCHANGED orphans
  /\ UNCHANGED extVars

\* readexactly() raised IncompleteReadError: the server closed the connection
\* or the stream ended inside a frame.
RecvEOF ==
  /\ rlPc = "read"
  /\ ~cancelReq
  /\ EndLoop("IncompleteReadError", pending)
  /\ UNCHANGED <<use_tls, encryptor, writer, fut, futRes, push_handlers, next_id,
                 rlPkt, rlIdx, cancelReq, pushLog, callVars, written, ctlVars>>
  /\ UNCHANGED orphans
  /\ UNCHANGED extVars

\* The frame read cannot be decoded (decode_header, decrypt or decode raises),
\* or the transport raises another error.
RecvBadFrame ==
  /\ rlPc = "read"
  /\ ~cancelReq
  /\ EndLoop("Exception", pending)
  /\ UNCHANGED <<use_tls, encryptor, writer, fut, futRes, push_handlers, next_id,
                 rlPkt, rlIdx, cancelReq, pushLog, callVars, written, ctlVars>>
  /\ UNCHANGED orphans
  /\ UNCHANGED extVars

\* The cancellation requested by disconnect() reaches the task at its await:
\* `except asyncio.CancelledError: pass`.
RecvCancelled ==
  /\ cancelReq
  /\ TaskRunning
  /\ rlPc' = "ended"
  /\ rlErr' = "CancelledError"
  /\ cancelReq' = FALSE
  /\ rlPkt' = NoPkt
  /\ rlIdx' = 0
  /\ pushLog' = <<>>
  /\ UNCHANGED <<sessVars, mapVars, push_handlers, next_id, callVars, written,
                 ctlVars>>
  /\ UNCHANGED orphans
  /\ UNCHANGED extVars

\* -------------------------------------------------------- _handle_push()
\* A lookup that ignores the method and takes every registered handler.
HandlersForAny(method) ==
  LET RECURSIVE Cat(_)
      Cat(ms) == IF ms = {} THEN <<>>
                 ELSE LET m == CHOOSE x \in ms : TRUE
                      IN push_handlers[m] \o Cat(ms \ {m})
  IN Cat(Methods)

\* `self._push_handlers.get(method, [])`
HandlersFor(method) == push_handlers[method]

\* A dispatch without the try/except: the handler's exception reaches the loop.
AfterHandlerUncaught(raised) == IF raised THEN "ended" ELSE "push"

\* try: await handler(packet) / except Exception: print.  The loop position
\* after a handler returned or raised.
AfterHandler(raised) == "push"

\* The for loop takes the next handler of the list and awaits it; the handler
\* returns or raises.
PushCall(raised) ==
  /\ rlPc = "push"
  /\ ~cancelReq
  /\ rlIdx < Len(HandlersFor(rlPkt.method))
  /\ pushLog' = Append(pushLog, [handler |-> HandlersFor(rlPkt.method)[rlIdx + 1],
                                  raised |-> raised])
  /\ rlIdx' = rlIdx + 1
  /\ rlPc' = AfterHandler(raised)
  /\ IF rlPc' = "ended"
       THEN /\ connected' = FALSE
            /\ rlErr' = "Exception"
       ELSE UNCHANGED <<connected, rlErr>>
  /\ UNCHANGED <<use_tls, encryptor, writer, mapVars, push_handlers, next_id,
                 rlPkt, cancelReq, callVars, written, ctlVars>>
  /\ UNCHANGED orphans
  /\ UNCHANGED extVars

\* The for loop is exhausted: _handle_push returns and the loop iterates.
PushDone ==
  /\ rlPc = "push"
  /\ ~cancelReq
  /\ rlIdx >= Len(HandlersFor(rlPkt.method))
  /\ rlPc' = NextIteration
  /\ rlPkt' = NoPkt
  /\ rlIdx' = 0
  /\ pushLog' = <<>>
  /\ UNCHANGED <<sessVars, mapVars, push_handlers, next_id, rlErr, cancelReq,
                 callVars, written, ctlVars>>
  /\ UNCHANGED orphans
  /\ UNCHANGED extVars

\* Registrations made so far.
RegCount ==
  LET RECURSIVE Sum(_)
      Sum(ms) == IF ms = {} THEN 0
                 ELSE LET m == CHOOSE x \in ms : TRUE
                      IN Len(push_handlers[m]) + Sum(ms \ {m})
  IN Sum(Methods)

\* on_push(method, handler)
OnPush(method, handler) ==
  /\ handler = RegCount + 1
  /\ push_handlers' = [push_handlers EXCEPT ![method] = Append(@, handler)]
  /\ UNCHANGED <<sessVars, mapVars, next_id, loopVars, callVars, written, ctlVars>>
  /\ UNCHANGED extVars

\* ------------------------------------------- send_command / _send_packet
\* A registration under the id the builder will issue next instead of the
\* packet's own.
RegisterUnderNext(pend, id) == pend \cup {id + 1}

\* A registration that leaves the pending map as it was.
RegisterNever(pend, id) == pend

\* `self._pending[packet.packet_id] = future`
Register(pend, id) == pend \cup {id}

\* A builder that hands out its id without advancing the counter.
AfterBuildSame(n) == n

\* PacketBuilder.build: `self._next_id += 1` after the packet took the id.
AfterBuild(n) == n + 1

\* send_command(method, body) up to the first await of _send_packet:
\* PacketBuilder.build takes the next id; the frame is encoded (legacy mode
\* encrypts with self._encryptor, an AttributeError when it is None); the
\* future is created and registered; the frame is written (an AttributeError
\* when self._writer is None; a closing transport discards the bytes); the
\* call awaits drain().
SendPacket(c) ==
  /\ pc[c] = "idle"
  /\ \A d \in Calls : d < c => pc[d] # "idle"
  /\ next_id \in Calls
  /\ LET id == next_id IN
     /\ next_id' = AfterBuild(next_id)
     /\ reqId' = [reqId EXCEPT ![c] = id]
     /\ IF ~use_tls /\ ~encryptor
          THEN /\ pc' = [pc EXCEPT ![c] = "error"]
               /\ UNCHANGED <<mapVars, written>>
          ELSE /\ fut' = [fut EXCEPT ![id] = "pending"]
               /\ pending' = Register(pending, id)
               /\ UNCHANGED futRes
               /\ IF writer = "none"
                    THEN /\ pc' = [pc EXCEPT ![c] = "error"]
                         /\ UNCHANGED written
                    ELSE /\ pc' = [pc EXCEPT ![c] = "drain"]
                         /\ written' = IF writer = "open"
                                         THEN Append(written, RequestFrame(id))
                                         ELSE written
  /\ UNCHANGED <<sessVars, push_handlers, loopVars, ret, ctlVars>>

\* A send_command call issued by a caller task.
SendStart(c) ==
  /\ SendPacket(c)
  /\ UNCHANGED extVars

\* drain() returns: the call enters wait_for(future, timeout=30.0).
DrainOk(c) ==
  /\ pc[c] = "drain"
  /\ pc' = [pc EXCEPT ![c] = "wait"]
  /\ UNCHANGED <<sessVars, mapVars, push_handlers, next_id, loopVars, reqId, ret,
                 written, ctlVars>>
  /\ UNCHANGED extVars

\* drain() raises (connection lost): _send_packet raises.
DrainFail(c) ==
  /\ pc[c] = "drain"
  /\ pc' = [pc EXCEPT ![c] = "error"]
  /\ UNCHANGED <<sessVars, mapVars, push_handlers, next_id, loopVars, reqId, ret,
                 written, ctlVars>>
  /\ UNCHANGED extVars

\* The future has its result: wait_for returns it to the caller.
WaitReturn(c) ==
  /\ pc[c] = "wait"
  /\ fut[reqId[c]] = "result"
  /\ pc' = [pc EXCEPT ![c] = "returned"]
  /\ ret' = [ret EXCEPT ![c] = futRes[reqId[c]]]
  /\ UNCHANGED <<sessVars, mapVars, push_handlers, next_id, loopVars, reqId,
                 written, ctlVars>>
  /\ UNCHANGED extVars

\* A wait without a deadline.
WaitForever(c) ==
  /\ pc[c] = "wait"
  /\ FALSE
  /\ UNCHANGED vars
  /\ UNCHANGED extVars

\* A timeout that writes the request to the transport once more before it
\* gives up.
WaitTimeoutResend(c) ==
  /\ pc[c] = "wait"
  /\ fut[reqId[c]] = "pending"
  /\ fut' = [fut EXCEPT ![reqId[c]] = "cancelled"]
  /\ pc' = [pc EXCEPT ![c] = "TimeoutError"]
  /\ written' = Append(written, RequestFrame(reqId[c]))
  /\ UNCHANGED <<sessVars, pending, futRes, push_handlers, next_id, loopVars,
                 reqId, ret, ctlVars>>
  /\ UNCHANGED extVars

\* The 30 seconds pass with the future unresolved: wait_for cancels the future
\* and raises TimeoutError.
WaitTimeout(c) ==
  /\ pc[c] = "wait"
  /\ fut[reqId[c]] = "pending"
  /\ fut' = [fut EXCEPT ![reqId[c]] = "cancelled"]
  /\ pc' = [pc EXCEPT ![c] = "TimeoutError"]
  /\ UNCHANGED <<sessVars, pending, futRes, push_handlers, next_id, loopVars,
                 reqId, ret, written, ctlVars>>
  /\ UNCHANGED extVars

\* ---------------------------------------------------------- specification
Lifecycle ==
  \/ \E tls \in BOOLEAN : ConnectStart(tls)
  \/ ConnectOpenFail
  \/ ConnectOpened
  \/ ConnectHandshakeFlushed
  \/ ConnectHandshakeFail
  \/ DisconnectStart
  \/ DisconnectTaskDone
  \/ DisconnectClosed

Receive ==
  \/ \E f \in Packet : RecvFrame(f)
  \/ RecvEOF
  \/ RecvBadFrame
  \/ RecvCancelled
  \/ PushDone

Dispatch ==
  \/ \E raised \in BOOLEAN : PushCall(raised)
  \/ \E m \in Methods, h \in Handlers : OnPush(m, h)

Callers(n) ==
  \/ \E c \in 1..n : SendStart(c)
  \/ \E c \in Calls : DrainOk(c)
  \/ \E c \in Calls : DrainFail(c)
  \/ \E c \in Calls : WaitReturn(c)
  \/ \E c \in Calls : WaitTimeout(c)

\* The whole session.
Next == Lifecycle \/ Receive \/ Dispatch \/ Callers(MaxSends)
Spec == Init /\ [][Next]_vars

\* Requests and replies on a session where no push handler is registered
\* (a push is dispatched to an empty handler list).
NextSend == Lifecycle \/ Receive \/ Callers(MaxSends)
SpecSend == Init /\ [][NextSend]_vars

\* Push dispatch on a session that also carries PushSends requests.
NextPush == Lifecycle \/ Receive \/ Dispatch \/ Callers(PushSends)
SpecPush == Init /\ [][NextPush]_vars

\* A suspended caller resumes: its drain() finished, its future is done or
\* its 30-second timer fired.
Resume ==
  \E c \in Calls : DrainOk(c) \/ DrainFail(c) \/ WaitReturn(c) \/ WaitTimeout(c)

\* The scheduling of the event loop: while some caller can resume, some caller
\* is resumed.
LiveSend == SpecSend /\ WF_vars(Resume)

\* The session when the caller may call connect() again while connected.
Reconnect ==
  \/ \E tls \in BOOLEAN : ConnectAgain(tls)
  \/ OrphanEnds

NextReconnect == NextSend \/ Reconnect
SpecReconnect == Init /\ [][NextReconnect]_vars

\* ------------------------------------------------ handlers that suspend
\* `await handler(packet)` when the handler itself awaits: the receive task
\* is suspended inside _handle_push until the handler returns or raises.
\* A handler invocation is named by its handler, the packet it was given and
\* the send_command call it issued (0: none).
Invocation(h, pkt, call) == [handler |-> h, pkt |-> pkt, call |-> call]

\* A dispatch that starts the handler as a task of its own and goes on.
AfterSuspendDetached == "push"

\* `await handler(packet)`: the loop's position while the handler is suspended.
AfterSuspend == "handler"

\* The for loop awaits the next handler of the list and the handler suspends
\* at an await of its own.
HandlerStart ==
  /\ rlPc = "push"
  /\ ~cancelReq
  /\ rlIdx < Len(HandlersFor(rlPkt.method))
  /\ hRun' = hRun \cup {Invocation(HandlersFor(rlPkt.method)[rlIdx + 1], rlPkt, 0)}
  /\ rlIdx' = rlIdx + 1
  /\ rlPc' = AfterSuspend
  /\ UNCHANGED <<sessVars, mapVars, push_handlers, next_id, rlPkt, rlErr, cancelReq,
                 pushLog, orphans, callVars, written, ctlVars>>
  /\ UNCHANGED <<rxVars, fcVars, pureVars, hSent>>

\* A running handler calls send_command and awaits it.
HandlerSend(r, c) ==
  /\ r \in hRun
  /\ r.call = 0
  /\ SendPacket(c)
  /\ hRun' = (hRun \ {r}) \cup {Invocation(r.handler, r.pkt, c)}
  /\ hSent' = hSent \cup {c}
  /\ UNCHANGED <<rxVars, fcVars, pureVars>>

\* A suspended handler returns or raises; one that awaits a send does so when
\* the send has returned or raised.  The try/except of _handle_push takes the
\* exception and the for loop goes on.
HandlerEnd(r, raised) ==
  /\ r \in hRun
  /\ r.call # 0 => pc[r.call] \in {"returned", "TimeoutError", "error"}
  /\ hRun' = hRun \ {r}
  /\ pushLog' = Append(pushLog, [handler |-> r.handler, raised |-> raised])
  /\ rlPc' = IF rlPc = "handler" THEN AfterHandler(raised) ELSE rlPc
  /\ UNCHANGED <<sessVars, mapVars, push_handlers, next_id, rlPkt, rlIdx, rlErr,
                 cancelReq, orphans, callVars, written, ctlVars>>
  /\ UNCHANGED <<rxVars, fcVars, pureVars, hSent>>

\* A TLS session with handlers that suspend and send; its handlers are
\* registered before it is connected, and it is connected once and not
\* disconnected.
NextHandler ==
  \/ ConnectStart(TRUE)
  \/ ConnectOpenFail
  \/ ConnectOpened
  \/ \E f \in Packet : RecvFrame(f)
  \/ RecvEOF
  \/ RecvBadFrame
  \/ PushDone
  \/ \E raised \in BOOLEAN : PushCall(raised)
  \/ writer = "none" /\ \E m \in Methods, h \in Handlers : OnPush(m, h)
  \/ HandlerStart
  \/ \E r \in hRun, c \in Calls : HandlerSend(r, c)
  \/ \E r \in hRun, raised \in BOOLEAN : HandlerEnd(r, raised)
  \/ Callers(PushSends)

SpecHandler == Init /\ [][NextHandler]_vars

\* ------------------------------------------- framing of the byte stream
\* The reads of _receive_loop at byte granularity.  A byte of the stream is
\* named by the frame it belongs to, that frame's declared body length (what
\* the header's length field says), the part of the frame it lies in and its
\* index in that part: "H" the 22-byte header and "B" the body of a raw
\* packet; "S" the 4-byte size field and "E" the IV and ciphertext of a
\* legacy frame.
Byte(k, len, part, i) == [frame |-> k, len |-> len, part |-> part, idx |-> i]
Bytes(k, len, part, n) == [i \in 1..n |-> Byte(k, len, part, i)]

\* LocoPacket.encode: header + body_bytes.
Encode(k, len) == Bytes(k, len, "H", HEADER_SIZE) \o Bytes(k, len, "B", len)

\* LocoEncryptor.encrypt: 4-byte size + 16-byte IV + ciphertext of the packet.
Encrypt(k, len) ==
  Bytes(k, len, "S", SIZE_FIELD) \o Bytes(k, len, "E", IV_SIZE + HEADER_SIZE + len)

\* The stream the server sends: its frames one after the other.
Wire(tls, lens) ==
  LET RECURSIVE W(_)
      W(k) == IF k = 0 THEN <<>>
              ELSE W(k - 1) \o (IF tls THEN Encode(k, lens[k])
                                       ELSE Encrypt(k, lens[k]))
  IN W(Len(lens))

\* `data` is bytes 1..n of one part of one frame.
IsRun(data, part, n) ==
  /\ Len(data) = n
  /\ \A i \in 1..n : /\ data[i].part = part
                     /\ data[i].idx = i
                     /\ data[i].frame = data[1].frame

\* decode_header(header_data)[4]: the body_length field.  Bytes that are not
\* a header (too few: struct.error; misaligned: an arbitrary number) give -1.
DecodeHeader(data) ==
  IF IsRun(data, "H", HEADER_SIZE) THEN data[1].len ELSE -1

\* struct.unpack("<I", size_data)[0]
UnpackSize(data) ==
  IF IsRun(data, "S", SIZE_FIELD)
    THEN IV_SIZE + HEADER_SIZE + data[1].len ELSE -1

\* LocoEncryptor.decrypt: data[:16] is the IV; CFB turns a prefix of the
\* ciphertext into the same prefix of the plaintext, and bytes that do not
\* start at the IV into garbage (no bytes here).
Decrypt(data) ==
  IF Len(data) >= IV_SIZE /\ IsRun(data, "E", Len(data))
    THEN SubSeq(Encode(data[1].frame, data[1].len), 1, Len(data) - IV_SIZE)
    ELSE <<>>

\* What LocoPacket.decode raises on.
NoDecode == [packet_id |-> -1, body |-> <<>>]

\* LocoPacket.decode: fewer than 22 bytes raise ValueError; the body is the
\* slice data[22 : 22 + body_length], shorter when fewer bytes were supplied.
Decode(data) ==
  IF Len(data) < HEADER_SIZE \/ ~IsRun(SubSeq(data, 1, HEADER_SIZE), "H", HEADER_SIZE)
    THEN NoDecode
    ELSE LET last == IF Len(data) < HEADER_SIZE + data[1].len
                       THEN Len(data) ELSE HEADER_SIZE + data[1].len
         IN [packet_id |-> data[1].frame,
             body |-> SubSeq(data, HEADER_SIZE + 1, last)]

\* A read that returns as soon as any byte is buffered, like reader.read(n).
ReadAvailable(n, buffered) ==
  IF buffered >= n THEN n ELSE IF buffered > 0 THEN buffered ELSE -1

\* reader.readexactly(n): returns n bytes once n bytes are buffered; -1 while
\* it is still suspended.
ReadExactly(n, buffered) == IF buffered >= n THEN n ELSE -1

\* The loop follows a stream of 1..MaxFrames frames on a connected session.
InitFraming ==
  /\ connected = TRUE
  /\ use_tls \in BOOLEAN
  /\ encryptor = ~use_tls
  /\ writer = "open"
  /\ pending = {}
  /\ fut = [i \in Calls |-> "none"]
  /\ futRes = [i \in Calls |-> NoPkt]
  /\ push_handlers = [m \in Methods |-> <<>>]
  /\ next_id = 1
  /\ rlPc = "read"
  /\ rlPkt = NoPkt
  /\ rlIdx = 0
  /\ rlErr = "none"
  /\ cancelReq = FALSE
  /\ pushLog = <<>>
  /\ pc = [c \in Calls |-> "idle"]
  /\ reqId = [c \in Calls |-> 0]
  /\ ret = [c \in Calls |-> NoPkt]
  /\ written = IF use_tls THEN <<>> ELSE <<HandshakeFrame>>
  /\ conPc = "idle"
  /\ dPc = "idle"
  /\ dRes = "none"
  /\ orphans = 0
  /\ FcIdle
  /\ CdIdle
  /\ CrIdle
  /\ HIdle
  /\ rxLens \in UNION {[1..n -> 0..MaxBody] : n \in 1..MaxFrames}
  /\ rxAvail = 0
  /\ rxPos = 0
  /\ rxPc = "header"
  /\ rxNeed = 0
  /\ rxHeld = <<>>
  /\ rxOut = <<>>

\* One socket read hands the reader the next n bytes of the stream.
RxDeliver(n) ==
  /\ rxAvail + n <= Len(Wire(use_tls, rxLens))
  /\ rxAvail' = rxAvail + n
  /\ UNCHANGED <<locoVars, fcVars, pureVars, hVars, rxLens, rxPos, rxPc, rxNeed, rxHeld, rxOut>>

\* The first read of an iteration returns: readexactly(HEADER_SIZE) and
\* decode_header, or readexactly(4) and struct.unpack.
RxReadPrefix ==
  /\ rxPc = "header"
  /\ LET want == IF use_tls THEN HEADER_SIZE ELSE SIZE_FIELD
         got  == ReadExactly(want, rxAvail - rxPos)
         data == SubSeq(Wire(use_tls, rxLens), rxPos + 1, rxPos + got)
         need == IF use_tls THEN DecodeHeader(data) ELSE UnpackSize(data)
     IN /\ got >= 0
        /\ rxPos' = rxPos + got
        /\ IF need < 0
             THEN /\ rxPc' = "failed"
                  /\ UNCHANGED <<rxNeed, rxHeld>>
             ELSE /\ rxPc' = "body"
                  /\ rxNeed' = need
                  /\ rxHeld' = data
  /\ UNCHANGED <<locoVars, fcVars, pureVars, hVars, rxLens, rxAvail, rxOut>>

\* The second read returns: readexactly(body_length) and decode of header +
\* body, or readexactly(size), decrypt and decode.
RxReadFrame ==
  /\ rxPc = "body"
  /\ LET got  == ReadExactly(rxNeed, rxAvail - rxPos)
         data == SubSeq(Wire(use_tls, rxLens), rxPos + 1, rxPos + got)
         pkt  == Decode(IF use_tls THEN rxHeld \o data ELSE Decrypt(data))
     IN /\ got >= 0
        /\ rxPos' = rxPos + got
        /\ IF pkt = NoDecode
             THEN /\ rxPc' = "failed"
                  /\ UNCHANGED rxOut
             ELSE /\ rxPc' = "header"
                  /\ rxOut' = Append(rxOut, pkt)
        /\ rxNeed' = 0
        /\ rxHeld' = <<>>
  /\ UNCHANGED <<locoVars, fcVars, pureVars, hVars, rxLens, rxAvail>>

NextFraming ==
  \/ \E n \in 1..(IV_SIZE + HEADER_SIZE + MaxBody) : RxDeliver(n)
  \/ RxReadPrefix
  \/ RxReadFrame

SpecFraming == InitFraming /\ [][NextFraming]_vars

\* ------------------------------------------------------- full_connect()
\* One connection or request that full_connect() starts: the booking
\* one-shot, a checkin attempt's one-shot, the session connect, the LOGINLIST
\* request.
Entry(call, tls, port) == [call |-> call, tls |-> tls, port |-> port]

\* The parts of the GETCONF reply that full_connect() reads: ticket.lsl, and
\* wifi.ports, which may be absent.
BookingConfigs ==
  [lsl : {<<>>, <<"lsl1", "lsl2">>},
   hasPorts : BOOLEAN,
   ports : {<<>>, <<443>>, <<9282, 5228>>}]

\* How one checkin attempt can end: a reply with a host, a reply whose host is
\* empty or absent, an exception of _loco_oneshot, the 10-second timeout.
CkOutcomes == {"host", "nohost", "raises", "timeout"}
\* The port field of a checkin reply; 0 stands for an absent field.
ReplyPorts == {0, 8080}
\* The userId field of a LOGINLIST reply; 0 stands for zero or absent.
UserIds == {0, 7}

\* A choice that takes the last port of the list.
CheckinPortLast(cfg) ==
  LET ports == IF cfg.hasPorts THEN cfg.ports ELSE LOCO_PORTS
  IN IF ports # <<>> THEN ports[Len(ports)] ELSE DEFAULT_LOCO_PORT

\* wifi.get("ports", LOCO_PORTS), then ports[0] if ports else DEFAULT_LOCO_PORT
CheckinPort(cfg) ==
  LET ports == IF cfg.hasPorts THEN cfg.ports ELSE LOCO_PORTS
  IN IF ports # <<>> THEN ports[1] ELSE DEFAULT_LOCO_PORT

\* A variant list that probes the legacy transport first.
VariantsLegacyFirst(port) ==
  << [tls |-> FALSE, port |-> port],
     [tls |-> TRUE, port |-> 443],
     [tls |-> TRUE, port |-> port] >>

\* checkin(): [(True, 443), (True, checkin_port), (False, checkin_port)]
Variants(port) ==
  << [tls |-> TRUE, port |-> 443],
     [tls |-> TRUE, port |-> port],
     [tls |-> FALSE, port |-> port] >>

\* A checkin that leaves the mode out of its reply, so that full_connect()
\* falls back to checkin_data.get("_use_tls", True).
RecordModeDefault(v) == TRUE

\* response.body["_use_tls"] = use_tls
RecordMode(v) == v.tls

\* raise ConnectionError("All checkin attempts failed"): the causes the
\* exception carries.  Each attempt's exception was printed when it was
\* caught; the message names none of them.
RaisedCauses(tried) == <<>>

\* A full_connect() without its try/except: the exception reaches the caller.
Uncaught == "raised"

\* except Exception: print, return False.
Caught == "False"

\* `if self.user_id:`
LoginOk(uid) == uid # 0

\* A full_connect() that goes on to login() whether or not connect() raised.
ConnectIgnored == TRUE

\* connect() returned: it created the receive task.  (When it raises, no task
\* exists on a fresh session.)
ConnectSucceeded == rlPc # "none"

\* full_connect() up to its first await: booking() builds GETCONF and opens
\* the one-shot connection to the booking server.
FcStart ==
  /\ fcPc = "idle"
  /\ conPc = "idle"
  /\ rlPc = "none"
  /\ fcPc' = "booking"
  /\ fcLog' = Append(fcLog, Entry("booking", TRUE, BOOKING_PORT))
  /\ UNCHANGED <<locoVars, rxVars, pureVars, hVars, fcRes, fcHosts, fcCfg, ckHost, oneshots, ckPort, ckIdx, ckTried, ckErr,
                 ckData, loginVars>>

\* How _loco_oneshot leaves its connection.  It closes the writer after it
\* decoded the response (`writer.close(); await writer.wait_closed()` are its
\* last statements, outside any try/finally); an exception or the
\* cancellation by wait_for leaves the function before them, with the
\* connection open if open_connection had returned.
OneshotConn(outcome, opened) ==
  IF outcome \in {"host", "nohost", "reply"} THEN "closed"
  ELSE IF opened THEN "open" ELSE "none"

\* One finished exchange: the call it served, how it ended, its connection.
Oneshot(call, outcome, conn) == [call |-> call, outcome |-> outcome, conn |-> conn]

\* The booking one-shot raises, before or after its connection was opened.
FcBookingRaises(opened) ==
  /\ fcPc = "booking"
  /\ fcRes' = Caught
  /\ fcPc' = "done"
  /\ oneshots' = Append(oneshots, Oneshot("booking", "raises", OneshotConn("raises", opened)))
  /\ UNCHANGED <<locoVars, rxVars, pureVars, hVars, fcLog, fcHosts, fcCfg, ckHost, ckPort, ckIdx, ckTried, ckErr,
                 ckData, loginVars>>

\* booking() returns the configuration.  An empty host list returns False;
\* otherwise checkin() is called and starts its first attempt.
FcBooked(cfg) ==
  /\ fcPc = "booking"
  /\ fcHosts' = cfg.lsl
  /\ fcCfg' = [hasPorts |-> cfg.hasPorts,
               ports |-> IF cfg.hasPorts THEN cfg.ports ELSE <<>>]
  /\ oneshots' = Append(oneshots, Oneshot("booking", "reply", OneshotConn("reply", TRUE)))
  /\ IF cfg.lsl = <<>>
       THEN /\ fcRes' = "False"
            /\ fcPc' = "done"
            /\ UNCHANGED <<fcLog, ckHost, ckPort, ckIdx>>
       ELSE LET port == CheckinPort(cfg)
                v == Variants(port)[1]
            IN /\ ckHost' = cfg.lsl[1]
               /\ ckPort' = port
               /\ ckIdx' = 1
               /\ fcPc' = "checkin"
               /\ fcLog' = Append(fcLog, Entry("checkin", v.tls, v.port))
               /\ UNCHANGED fcRes
  /\ UNCHANGED <<locoVars, rxVars, pureVars, hVars, ckTried, ckErr, ckData, loginVars>>

\* The running checkin attempt ends.  A reply with a host: checkin() records
\* the mode and returns, and full_connect() calls connect() up to its first
\* await.  Otherwise the next variant is started, or after the last one
\* checkin() raises ConnectionError, which full_connect() catches.
CkAttemptDone(outcome, rport, opened) ==
  /\ fcPc = "checkin"
  /\ outcome \in {"host", "nohost"} => opened
  /\ oneshots' = Append(oneshots, Oneshot("checkin", outcome, OneshotConn(outcome, opened)))
  /\ LET v == Variants(ckPort)[ckIdx]
         data == [host |-> "loco", port |-> rport, use_tls |-> RecordMode(v)]
         loco_port == IF rport = 0 THEN DEFAULT_LOCO_PORT ELSE rport
     IN /\ ckTried' = Append(ckTried, [tls |-> v.tls, port |-> v.port,
                                        outcome |-> outcome])
        /\ IF outcome = "host"
             THEN /\ ckData' = data
                  /\ use_tls' = data.use_tls
                  /\ conPc' = "opening"
                  /\ fcPc' = "connect"
                  /\ fcLog' = Append(fcLog, Entry("connect", data.use_tls, loco_port))
                  /\ UNCHANGED <<ckIdx, ckErr, fcRes>>
             ELSE IF ckIdx < Len(Variants(ckPort))
               THEN LET w == Variants(ckPort)[ckIdx + 1] IN
                    /\ ckIdx' = ckIdx + 1
                    /\ fcLog' = Append(fcLog, Entry("checkin", w.tls, w.port))
                    /\ UNCHANGED <<ckData, ckErr, fcRes, fcPc, use_tls, conPc>>
               ELSE /\ ckErr' = [type |-> "ConnectionError",
                                 causes |-> RaisedCauses(ckTried')]
                    /\ fcRes' = Caught
                    /\ fcPc' = "done"
                    /\ UNCHANGED <<ckIdx, ckData, fcLog, use_tls, conPc>>
  /\ UNCHANGED <<connected, encryptor, writer, mapVars, push_handlers, next_id,
                 loopVars, callVars, written, dPc, dRes, rxVars, pureVars, hVars, fcHosts, fcCfg, ckHost, ckPort,
                 loginVars>>

\* connect() raised (open_connection or the handshake's drain failed).
FcConnectRaised ==
  /\ fcPc = "connect"
  /\ conPc = "idle"
  /\ ~ConnectSucceeded
  /\ fcRes' = Caught
  /\ fcPc' = "done"
  /\ UNCHANGED <<locoVars, rxVars, pureVars, hVars, fcLog, fcHosts, fcCfg, ckHost, oneshots, ckPort, ckIdx, ckTried, ckErr,
                 ckData, loginVars>>

\* connect() returned: login() sends LOGINLIST, up to _send_packet's drain().
FcLogin ==
  /\ fcPc = "connect"
  /\ conPc = "idle"
  /\ ConnectSucceeded
  /\ SendPacket(1)
  /\ fcPc' = "login"
  /\ fcLog' = Append(fcLog, Entry("login", use_tls, 0))
  /\ UNCHANGED <<rxVars, pureVars, hVars, fcRes, fcHosts, fcCfg, ckHost, oneshots, ckPort, ckIdx, ckTried, ckErr, ckData,
                 loginVars>>

\* dict.get(key, default)
Get(d, key, default) == IF key \in DOMAIN d THEN d[key] ELSE default

\* The chatDatas lists a LOGINLIST reply carries: entries with all fields,
\* two entries for the same chat id, an entry with only a chat id.
ChatDatas ==
  LET e1 == [chatId |-> 11, type |-> "DirectChat", lastLogId |-> 5, lastSeenLogId |-> 4]
      e2 == [chatId |-> 12, type |-> "MultiChat", lastLogId |-> 9, lastSeenLogId |-> 9]
      e3 == [chatId |-> 11, type |-> "MultiChat", lastLogId |-> 6, lastSeenLogId |-> 5]
      e4 == [chatId |-> 13]
  IN {<<>>, <<e1>>, <<e1, e2>>, <<e1, e3>>, <<e4>>}

\* The LOGINLIST reply bodies: userId and chatDatas may each be absent.
LoginBodies ==
  {[k \in (IF hasU THEN {"userId"} ELSE {}) \cup (IF hasC THEN {"chatDatas"} ELSE {})
      |-> IF k = "userId" THEN uid ELSE cds] :
     hasU \in BOOLEAN, uid \in UserIds, hasC \in BOOLEAN, cds \in ChatDatas}

\* A ChatRoom built with the two log ids exchanged.
RoomOfSwapped(cd) ==
  [chat_id |-> Get(cd, "chatId", 0),
   type |-> Get(cd, "type", ""),
   last_log_id |-> Get(cd, "lastSeenLogId", 0),
   last_seen_log_id |-> Get(cd, "lastLogId", 0)]

\* ChatRoom(chat_id=..., type=str(...), last_log_id=..., last_seen_log_id=...)
RoomOf(cd) ==
  [chat_id |-> Get(cd, "chatId", 0),
   type |-> Get(cd, "type", ""),
   last_log_id |-> Get(cd, "lastLogId", 0),
   last_seen_log_id |-> Get(cd, "lastSeenLogId", 0)]

\* `for chat_data in body["chatDatas"]: self.chat_rooms[chat_id] = ChatRoom(...)`:
\* a later entry replaces the room an earlier one stored under the same id.
RecordRooms(rooms, cds) ==
  LET RECURSIVE R(_)
      R(k) == IF k = 0 THEN rooms
              ELSE (RoomOf(cds[k]).chat_id :> RoomOf(cds[k])) @@ R(k - 1)
  IN R(Len(cds))

\* send_command returned or raised.  login() stores body.get("userId", 0) in
\* self.user_id and in self.credentials.user_id, records the rooms of
\* chatDatas and returns the body; full_connect() returns True when the user
\* id is non-zero, False otherwise, and False when the send raised.
FcLoginDone(body) ==
  /\ fcPc = "login"
  /\ pc[1] \in {"returned", "TimeoutError", "error"}
  /\ IF pc[1] = "returned"
       THEN /\ user_id' = Get(body, "userId", 0)
            /\ credentials' = [credentials EXCEPT !.user_id = Get(body, "userId", 0)]
            /\ chat_rooms' = RecordRooms(chat_rooms, Get(body, "chatDatas", <<>>))
            /\ loginRet' = body
            /\ fcRes' = IF LoginOk(Get(body, "userId", 0)) THEN "True" ELSE "False"
       ELSE /\ fcRes' = Caught
            /\ UNCHANGED loginVars
  /\ fcPc' = "done"
  /\ UNCHANGED <<locoVars, rxVars, pureVars, hVars, fcLog, fcHosts, fcCfg, ckHost, oneshots, ckPort, ckIdx, ckTried, ckErr,
                 ckData>>

\* full_connect() is between two awaits of its own: nothing else runs.
FcRunning ==
  \/ fcPc = "connect" /\ conPc = "idle"
  \/ fcPc = "login" /\ pc[1] \notin {"drain", "wait"}

\* full_connect() on a fresh session; the receive task and the LOGINLIST
\* call's resumptions run while full_connect() is suspended.
NextBootstrap ==
  \/ FcStart
  \/ \E opened \in BOOLEAN : FcBookingRaises(opened)
  \/ \E cfg \in BookingConfigs : FcBooked(cfg)
  \/ \E o \in CkOutcomes, p \in ReplyPorts, opened \in BOOLEAN : CkAttemptDone(o, p, opened)
  \/ ConnectOpenFail
  \/ ConnectOpened
  \/ ConnectHandshakeFlushed
  \/ ConnectHandshakeFail
  \/ FcConnectRaised
  \/ FcLogin
  \/ \E body \in LoginBodies : FcLoginDone(body)
  \/ ~FcRunning /\ (\E f \in Packet : RecvFrame(f))
  \/ ~FcRunning /\ RecvEOF
  \/ ~FcRunning /\ RecvBadFrame
  \/ ~FcRunning /\ PushDone
  \/ DrainOk(1)
  \/ DrainFail(1)
  \/ WaitReturn(1)
  \/ WaitTimeout(1)

SpecBootstrap == Init /\ [][NextBootstrap]_vars

\* ------------------------------------------------------------- LocoPacket
\* Bytes are integers in 0..255 and byte strings are sequences of them.  A
\* method is the sequence of its ASCII codes; a BSON document is the
\* sequence of its element bytes, and None is the absent body argument.

\* An n-letter method "ABC...".
Letters(n) == [i \in 1..n |-> 64 + i]

\* Methods of every length up to MaxMethod, and the same ending in NUL.
MethodStrings ==
  {Letters(n) : n \in 0..MaxMethod} \cup {Letters(n) \o <<0>> : n \in 0..(MaxMethod - 1)}

\* The documents of at most MaxDoc element bytes.
Docs == UNION {[1..n -> {1, 2}] : n \in 0..MaxDoc}

\* body=None of PacketBuilder.build.
None == <<-1>>

\* struct.unpack of an unsigned little-endian field.
UnLE(b) ==
  LET RECURSIVE U(_)
      U(k) == IF k = 0 THEN 0 ELSE b[k] * (256 ^ (k - 1)) + U(k - 1)
  IN U(Len(b))

\* struct.pack("<h", v): two's complement in two bytes.
PackShort(v) == LE((v + 65536) % 65536, 2)

\* "<H" in place of "<h": the status read back without its sign.
UnpackShortUnsigned(b) == UnLE(b)

\* struct.unpack("<h", b).
UnpackShort(b) == IF UnLE(b) >= 32768 THEN UnLE(b) - 65536 ELSE UnLE(b)

\* data[a:b] of Python: clamped to the bytes there are.
Slice(data, a, b) == SubSeq(data, a + 1, IF b < Len(data) THEN b ELSE Len(data))

\* bytes.ljust(w, b"\x00")
Ljust(b, w) == b \o [i \in 1..(w - Len(b)) |-> 0]

\* bytes.rstrip(b"\x00")
RStrip(b) ==
  LET RECURSIVE S(_)
      S(k) == IF k > 0 /\ b[k] = 0 THEN S(k - 1) ELSE SubSeq(b, 1, k)
  IN S(Len(b))

\* The method padded but not cut: a long method widens the header.
MethodFieldUncut(m) == Ljust(m, METHOD_SIZE)

\* method.encode("ascii").ljust(11, b"\x00")[:11]
MethodField(m) == Slice(Ljust(m, METHOD_SIZE), 0, METHOD_SIZE)

\* bson.BSON.encode: int32 total size, the elements, a NUL terminator.
BsonEncode(doc) == LE(Len(doc) + 5, 4) \o doc \o <<0>>

\* bson.BSON(b).decode(): the document, or InvalidBSON when the bytes are
\* not one whole document.
BsonDecode(b) ==
  IF Len(b) >= 5 /\ UnLE(SubSeq(b, 1, 4)) = Len(b) /\ b[Len(b)] = 0
  THEN [err |-> "none", doc |-> SubSeq(b, 5, Len(b) - 1)]
  ELSE [err |-> "InvalidBSON"]

\* A length field that counts the header as well.
BodyLengthWithHeader(body_bytes) == LE(HEADER_SIZE + Len(body_bytes), 4)

\* struct.pack("<I", len(body_bytes)) of encode
BodyLength(body_bytes) == LE(Len(body_bytes), 4)

\* LocoPacket.encode
encode(p) ==
  LET body_bytes == BsonEncode(p.body)
      method_bytes == MethodField(p.method)
  IN LE(p.packet_id, 4) \o PackShort(p.status_code) \o method_bytes
       \o <<p.body_type>> \o BodyLength(body_bytes) \o body_bytes

\* LocoPacket.decode
decode(data) ==
  IF Len(data) < HEADER_SIZE THEN [err |-> "ValueError"]
  ELSE LET body_length == UnLE(Slice(data, 18, 22))
           body_bytes == Slice(data, HEADER_SIZE, HEADER_SIZE + body_length)
           body == IF body_bytes # <<>> THEN BsonDecode(body_bytes)
                   ELSE [err |-> "none", doc |-> <<>>]
       IN IF body.err # "none" THEN [err |-> body.err]
          ELSE [err |-> "none",
                pkt |-> [packet_id |-> UnLE(Slice(data, 0, 4)),
                         status_code |-> UnpackShort(Slice(data, 4, 6)),
                         method |-> RStrip(Slice(data, 6, 17)),
                         body_type |-> data[18],
                         body |-> body.doc]]

\* LocoPacket.decode_header; struct.unpack_from raises on a short buffer.
decode_header(data) ==
  IF Len(data) < HEADER_SIZE THEN [err |-> "struct.error"]
  ELSE [err |-> "none",
        packet_id |-> UnLE(Slice(data, 0, 4)),
        status_code |-> UnpackShort(Slice(data, 4, 6)),
        method |-> RStrip(Slice(data, 6, 17)),
        body_type |-> data[18],
        body_length |-> UnLE(Slice(data, 18, 22))]

\* The packet PacketBuilder.build makes with the id it holds.
build(id, method, body) ==
  [packet_id |-> id, status_code |-> 0, method |-> method, body_type |-> 0,
   body |-> IF body \in {None, <<>>} THEN <<>> ELSE body]

\* The codec on a fresh session: a method, a body argument and a status.
InitCodec ==
  /\ LocoInit
  /\ RxIdle
  /\ FcIdle
  /\ CrIdle
  /\ HIdle
  /\ cdPc = "new"
  /\ cdArgs \in [method : MethodStrings, body : Docs \cup {None}, status_code : {-1, 300}]
  /\ cdPkt = NoResult
  /\ cdEnc = <<>>
  /\ cdHdr = NoResult
  /\ cdIn = <<>>
  /\ cdOut = NoResult

\* PacketBuilder.build(method, body)
CdBuild ==
  /\ cdPc = "new"
  /\ cdPkt' = build(next_id, cdArgs.method, cdArgs.body)
  /\ next_id' = AfterBuild(next_id)
  /\ cdPc' = "packet"
  /\ UNCHANGED <<sessVars, mapVars, push_handlers, loopVars, callVars, written, ctlVars>>
  /\ UNCHANGED <<rxVars, fcVars, hVars, crVars, cdArgs, cdEnc, cdHdr, cdIn, cdOut>>

\* LocoPacket(...) of a packet that is not a request: any status.
CdMake ==
  /\ cdPc = "new"
  /\ cdArgs.body # None
  /\ cdPkt' = [packet_id |-> 258, status_code |-> cdArgs.status_code,
               method |-> cdArgs.method, body_type |-> 0, body |-> cdArgs.body]
  /\ cdPc' = "packet"
  /\ UNCHANGED <<locoVars, rxVars, fcVars, hVars, crVars, cdArgs, cdEnc, cdHdr, cdIn, cdOut>>

\* packet.encode()
CdEncode ==
  /\ cdPc = "packet"
  /\ cdEnc' = encode(cdPkt)
  /\ cdPc' = "encoded"
  /\ UNCHANGED <<locoVars, rxVars, fcVars, hVars, crVars, cdArgs, cdPkt, cdHdr, cdIn, cdOut>>

\* LocoPacket.decode_header on the first 22 bytes, as _receive_loop does.
CdHeader ==
  /\ cdPc = "encoded"
  /\ cdHdr = NoResult
  /\ cdHdr' = decode_header(Slice(cdEnc, 0, HEADER_SIZE))
  /\ UNCHANGED <<locoVars, rxVars, fcVars, hVars, crVars, cdPc, cdArgs, cdPkt, cdEnc, cdIn, cdOut>>

\* LocoPacket.decode on the first n bytes of the encoding.
CdDecode(n) ==
  /\ cdPc = "encoded"
  /\ cdIn' = Slice(cdEnc, 0, n)
  /\ cdOut' = decode(Slice(cdEnc, 0, n))
  /\ cdPc' = "decoded"
  /\ UNCHANGED <<locoVars, rxVars, fcVars, hVars, crVars, cdArgs, cdPkt, cdEnc, cdHdr>>

NextCodec ==
  \/ CdBuild
  \/ CdMake
  \/ CdEncode
  \/ CdHeader
  \/ \E n \in 0..Len(cdEnc) : CdDecode(n)

SpecCodec == InitCodec /\ [][NextCodec]_vars

\* ---------------------------------------------------------- LocoEncryptor
\* A plaintext of n bytes.
Plain(n, seed) == [i \in 1..n |-> (i * 37 + seed) % 256]

\* The bitwise exclusive or of two bytes.
Xor(a, b) ==
  LET RECURSIVE X(_, _, _)
      X(x, y, n) == IF n = 0 THEN 0
                    ELSE (((x % 2) + (y % 2)) % 2) + 2 * X(x \div 2, y \div 2, n - 1)
  IN X(a, b, 8)

\* The AES block encryption under `key`, as a fixed function of key and
\* block: CFB applies only this direction, in encrypt and in decrypt.
AesBlock(key, block) ==
  [j \in 1..IV_SIZE |-> (key[j] * 7 + block[j] * 13 + block[(j % IV_SIZE) + 1] + j) % 256]

\* The shift register of CFB with segment_size=128 for byte k: the IV for
\* the first block, the previous ciphertext block afterwards.
Feedback(iv, c, k) ==
  LET blk == (k - 1) \div IV_SIZE
  IN IF blk = 0 THEN iv ELSE SubSeq(c, (blk - 1) * IV_SIZE + 1, blk * IV_SIZE)

\* AES.new(key, MODE_CFB, iv=iv, segment_size=128).encrypt(m)
CfbEncrypt(key, iv, m) ==
  LET RECURSIVE C(_)
      C(k) == IF k = 0 THEN <<>>
              ELSE LET prev == C(k - 1)
                   IN Append(prev, Xor(m[k], AesBlock(key, Feedback(iv, prev, k))[((k - 1) % IV_SIZE) + 1]))
  IN C(Len(m))

\* A decryption that feeds the IV to every block instead of chaining.
CfbDecryptUnchained(key, iv, c) ==
  [k \in 1..Len(c) |-> Xor(c[k], AesBlock(key, iv)[((k - 1) % IV_SIZE) + 1])]

\* AES.new(key, MODE_CFB, iv=iv, segment_size=128).decrypt(c)
CfbDecrypt(key, iv, c) ==
  [k \in 1..Len(c) |-> Xor(c[k], AesBlock(key, Feedback(iv, c, k))[((k - 1) % IV_SIZE) + 1])]

\* A size prefix that counts the ciphertext only.
encryptSizeWithoutIv(key, iv, plaintext) ==
  LET encrypted == CfbEncrypt(key, iv, plaintext)
  IN LE(Len(encrypted), SIZE_FIELD) \o iv \o encrypted

\* LocoEncryptor.encrypt, with the IV that os.urandom(16) returned
encrypt(key, iv, plaintext) ==
  LET encrypted == CfbEncrypt(key, iv, plaintext)
      size == Len(iv) + Len(encrypted)
  IN LE(size, SIZE_FIELD) \o iv \o encrypted

\* LocoEncryptor.decrypt
decrypt(key, data) ==
  LET iv == Slice(data, 0, IV_SIZE)
      encrypted == Slice(data, IV_SIZE, Len(data))
  IN CfbDecrypt(key, iv, encrypted)

\* One encryptor with its key, an IV and a plaintext, on a fresh session.
InitCrypto ==
  /\ LocoInit
  /\ RxIdle
  /\ FcIdle
  /\ CdIdle
  /\ HIdle
  /\ crPc = "new"
  /\ crKey \in {Block16(3), Block16(200)}
  /\ crIv \in {Block16(50), Block16(129)}
  /\ crPlain \in {Plain(n, seed) : n \in 0..MaxPlain, seed \in {0, 101}}
  /\ crFrame = <<>>
  /\ crOut = <<>>

\* frame = encryptor.encrypt(plaintext)
CrEncrypt ==
  /\ crPc = "new"
  /\ crFrame' = encrypt(crKey, crIv, crPlain)
  /\ crPc' = "encrypted"
  /\ UNCHANGED <<locoVars, rxVars, fcVars, hVars, cdVars, crKey, crIv, crPlain, crOut>>

\* encryptor.decrypt(frame[4:]), as _receive_loop does after the size field
CrDecrypt ==
  /\ crPc = "encrypted"
  /\ crOut' = decrypt(crKey, Slice(crFrame, SIZE_FIELD, Len(crFrame)))
  /\ crPc' = "decrypted"
  /\ UNCHANGED <<locoVars, rxVars, fcVars, hVars, cdVars, crKey, crIv, crPlain, crFrame>>

NextCrypto ==
  \/ CrEncrypt
  \/ CrDecrypt

SpecCrypto == InitCrypto /\ [][NextCrypto]_vars

\* -------------------------------------------------------------- properties
\* A send that is written and not yet answered, failed or timed out.
InFlight(c) == pc[c] \in {"drain", "wait"} /\ fut[reqId[c]] = "pending"

\* The step reads and decodes a frame: the loop handles it as a push or as the
\* reply of a cancelled slot (rlPkt is set), or it resolves a slot.
FrameDecoded ==
  /\ rlPc = "read"
  /\ rlPkt' # NoPkt \/ pending' # pending

\* C1: every send that returns a packet returns the packet whose id is the id
\* of its own request, whatever the number of sends in flight and the order in
\* which the replies arrive.
C1_ReplyMatchesRequest ==
  \A c \in Calls : pc[c] = "returned" => ret[c].packet_id = reqId[c]

\* Two sends were in flight together and the later one was answered first.
C1_Witness ==
  \E c, d \in Calls :
    /\ reqId[c] < reqId[d]
    /\ pc[d] = "returned"
    /\ ret[d].packet_id = reqId[d]
    /\ pc[c] = "wait"
    /\ fut[reqId[c]] = "pending"

\* C2: a request that has been written to the transport has its slot
\* registered: its id is in the pending map unless the receive loop has already
\* popped it (the future then has its result or was cancelled).
C2_SlotRegisteredBeforeWrite ==
  \A k \in 1..Len(written) :
    written[k].kind = "request" =>
      \/ written[k].packet_id \in pending
      \/ fut[written[k].packet_id] \in {"result", "cancelled"}

\* A request is written, its slot is registered, and its caller has not yet
\* started to wait.
C2_Witness ==
  \E c \in Calls :
    /\ pc[c] = "drain"
    /\ reqId[c] \in pending
    /\ fut[reqId[c]] = "pending"
    /\ \E k \in 1..Len(written) : written[k] = RequestFrame(reqId[c])

\* C3: once a send has failed with TimeoutError, the pending map holds no
\* entry for its packet id.
C3_TimedOutSlotDiscarded ==
  \A c \in Calls : pc[c] = "TimeoutError" => reqId[c] \notin pending

\* C4: a reply that arrives after its send timed out is dropped as an
\* unmatched packet: the receive loop keeps running, the session stays open,
\* and no caller is resolved or failed.
C4_LateReplyDropped ==
  [][ (\E c \in Calls : /\ pc[c] = "TimeoutError"
                        /\ rlPc = "read"
                        /\ rlPkt' # NoPkt
                        /\ rlPkt'.packet_id = reqId[c])
      => /\ rlPc' \in {"read", "push"}
         /\ connected' = connected
         /\ pc' = pc
         /\ ret' = ret ]_vars

\* C5: a timeout of one send is local to that call.  The timeout step changes
\* no other send's slot, future or position, and after it the receive loop
\* still serves every other in-flight send: no decoded frame ends the loop.
C5_TimeoutIsLocal ==
  [][ \A c, d \in Calls :
        (c # d /\ reqId[d] \in Calls) =>
          /\ (pc[c] = "wait" /\ pc'[c] = "TimeoutError") =>
               /\ fut'[reqId[d]] = fut[reqId[d]]
               /\ (reqId[d] \in pending') = (reqId[d] \in pending)
               /\ pc'[d] = pc[d]
          /\ (pc[c] = "TimeoutError" /\ InFlight(d) /\ FrameDecoded) =>
               rlPc' \in {"read", "push"} ]_vars

C7_PushDispatch ==
  /\ [](rlPc = "push" =>
          /\ rlIdx = Len(pushLog)
          /\ rlIdx <= Len(push_handlers[rlPkt.method])
          /\ \A k \in 1..Len(pushLog) :
               pushLog[k].handler = push_handlers[rlPkt.method][k])
  /\ [][ (rlPc = "read" /\ rlPkt' # NoPkt /\ rlPkt'.packet_id \notin pending)
         => (rlPc' = "push" /\ pushLog' = <<>>) ]_vars
  /\ [][ (rlPc = "push" /\ rlPc' = "read")
         => Len(pushLog) = Len(push_handlers[rlPkt.method]) ]_vars

\* A push is being dispatched and both handlers registered under its method
\* have been invoked, in registration order.
C7_Witness ==
  /\ rlPc = "push"
  /\ Len(push_handlers[rlPkt.method]) = 2
  /\ Len(pushLog) = 2
  /\ pushLog[1].handler = push_handlers[rlPkt.method][1]
  /\ pushLog[2].handler = push_handlers[rlPkt.method][2]

\* C8: a push handler that raises is contained.  The step in which it raises
\* leaves the receive loop in the dispatch and the session open and changes no
\* slot, future or caller; and a dispatch in which a handler raised still ends
\* only after every handler of the list has run.
C8_HandlerErrorContained ==
  /\ [][ (rlPc = "push" /\ Len(pushLog') > Len(pushLog) /\ pushLog'[Len(pushLog')].raised)
         => /\ rlPc' = "push"
            /\ connected' = connected
            /\ pending' = pending
            /\ fut' = fut
            /\ pc' = pc ]_vars
  /\ [][ (rlPc = "push" /\ rlPc' = "read" /\ \E k \in 1..Len(pushLog) : pushLog[k].raised)
         => \A j \in 1..Len(push_handlers[rlPkt.method]) :
              j <= Len(pushLog) /\ pushLog[j].handler = push_handlers[rlPkt.method][j] ]_vars

\* The first handler raised, the second handler ran after it, the session is
\* still open and a send is still in flight.
C8_Witness ==
  /\ rlPc = "push"
  /\ Len(pushLog) = 2
  /\ pushLog[1].raised
  /\ connected
  /\ \E c \in Calls : pc[c] = "wait" /\ InFlight(c)

\* C9: a codec or transport error in the receive loop ends the loop and sets
\* _connected to false; it leaves every slot registered and unresolved, and a
\* caller waiting on such a slot fails only by its own timeout.
C9_LoopErrorClosesSession ==
  /\ [][ (rlErr = "none" /\ rlErr' \in {"IncompleteReadError", "Exception"})
         => /\ rlPc' = "ended"
            /\ ~connected'
            /\ pending' = pending
            /\ fut' = fut
            /\ futRes' = futRes
            /\ pc' = pc ]_vars
  /\ [][ \A c \in Calls :
           (pc[c] = "wait" /\ InFlight(c) /\ rlPc = "ended" /\ pc'[c] # pc[c])
             => pc'[c] = "TimeoutError" ]_vars

\* The server closed the connection while a slot was registered and
\* unresolved: the loop, which has now ended, answered a later request while
\* the earlier one was waiting, and the earlier one is still waiting.
C9_Witness ==
  /\ rlPc = "ended"
  /\ rlErr = "IncompleteReadError"
  /\ ~connected
  /\ \E c, d \in Calls :
       /\ reqId[c] < reqId[d]
       /\ fut[reqId[d]] = "result"
       /\ pc[c] = "wait"
       /\ InFlight(c)
       /\ reqId[c] \in pending

\* The session after a finished disconnect(): not connected, no running
\* receive task, no open transport.
Quiescent ==
  /\ ~connected
  /\ ~TaskRunning
  /\ ~cancelReq
  /\ writer \in {"none", "closed"}

\* C10: disconnect() is idempotent.  It never raises; every call that
\* finishes leaves the session quiescent; and a call made on a quiescent
\* session (a second call, or a call on a session never connected) changes
\* nothing of the connection state.
C10_DisconnectIdempotent ==
  /\ [](dRes # "raised")
  /\ [][ (dPc # "idle" /\ dPc' = "idle") => (dRes' = "ok" /\ Quiescent') ]_vars
  /\ [][ (Quiescent /\ (dPc # "idle" \/ dPc' # dPc \/ dRes' # dRes))
         => UNCHANGED <<connected, use_tls, encryptor, writer, rlPc, rlErr,
                        cancelReq, written>> ]_vars

\* A second disconnect() is running on a session that an earlier call has
\* already disconnected: the receive task was cancelled and the transport is
\* closed while the call awaits wait_closed().
C10_Witness ==
  /\ dRes = "ok"
  /\ dPc = "awaitClose"
  /\ rlErr = "CancelledError"
  /\ writer = "closed"

\* C11: when disconnect() returns, the receive task has stopped and the
\* transport is closed; and from then on, until connect() is called again,
\* the session stays that way: no frame is read, no slot is resolved and no
\* push handler is invoked.
C11_DisconnectStopsLoop ==
  /\ [][ (dPc # "idle" /\ dPc' = "idle")
         => (~TaskRunning' /\ writer' \in {"none", "closed"}) ]_vars
  /\ [][ (Quiescent /\ conPc = "idle" /\ conPc' = "idle")
         => /\ Quiescent'
            /\ rlPkt' = rlPkt
            /\ pushLog' = pushLog
            /\ \A i \in Calls : fut'[i] = "result" => fut[i] = "result" ]_vars

\* disconnect() has returned on a session whose receive task it cancelled
\* while a request was still unanswered and a handler was registered.
C11_Witness ==
  /\ dPc = "idle"
  /\ dRes = "ok"
  /\ rlErr = "CancelledError"
  /\ writer = "closed"
  /\ \E i \in pending : fut[i] = "pending"
  /\ \E m \in Methods : push_handlers[m] # <<>>

\* C12: no send returns a synthetic success.  A call that returned holds the
\* packet its future was resolved with; a future gets a result only in a step
\* in which the running receive loop reads and decodes a frame, and the result
\* is that packet; no step of disconnect() and no step that ends the loop
\* gives a future a result; and a result, once set, is never replaced.
C12_NoSyntheticSuccess ==
  /\ [](\A c \in Calls : pc[c] = "returned" =>
           /\ ret[c] \in Packet
           /\ fut[reqId[c]] = "result"
           /\ ret[c] = futRes[reqId[c]])
  /\ [][ \A i \in Calls :
           /\ (fut[i] # "result" /\ fut'[i] = "result") =>
                /\ FrameDecoded
                /\ ~cancelReq
                /\ futRes'[i] \in Packet
                /\ futRes'[i].packet_id = i
                /\ rlPc' # "ended"
                /\ dPc' = dPc
           /\ fut[i] = "result" => (fut'[i] = "result" /\ futRes'[i] = futRes[i])
       ]_vars

\* One call has returned its reply, another is still waiting on its slot
\* after disconnect() cancelled the loop and returned.
C12_Witness ==
  \E c, d \in Calls :
    /\ pc[c] = "returned"
    /\ ret[c].packet_id = reqId[c]
    /\ pc[d] = "wait"
    /\ InFlight(d)
    /\ reqId[d] \in pending
    /\ rlErr = "CancelledError"
    /\ dPc = "idle"
    /\ dRes = "ok"

\* C13: with several sends in flight the bytes written are a concatenation of
\* whole frames.  Every write step hands the transport exactly one whole frame
\* (write() is one synchronous call, so nothing comes between its bytes), and
\* the transport's output is a sequence of whole frames, each request's frame
\* at most once.
C13_FramesNotInterleaved ==
  /\ [](\A k \in 1..Len(written) :
          /\ written[k].kind \in {"handshake", "request"}
          /\ written[k].kind = "handshake" => k = 1
          /\ \A j \in 1..Len(written) :
               (written[j] = written[k]) => j = k)
  /\ [][ (written' # written /\ conPc = "idle") =>
           /\ Len(written') = Len(written) + 1
           /\ SubSeq(written', 1, Len(written)) = written
           /\ written'[Len(written')].kind = "request"
           /\ \E c \in Calls : pc[c] = "idle" /\ pc'[c] = "drain"
                /\ written'[Len(written')].packet_id = reqId'[c] ]_vars

\* Two sends are suspended in drain() at the same time, both frames written.
C13_Witness ==
  \E c, d \in Calls :
    /\ c # d
    /\ pc[c] = "drain"
    /\ pc[d] = "drain"
    /\ \E j, k \in 1..Len(written) :
         /\ j < k
         /\ written[j] = [kind |-> "request", packet_id |-> reqId[c]]
         /\ written[k] = [kind |-> "request", packet_id |-> reqId[d]]

\* C14: at most one receive-loop task exists and reads from a transport at
\* any time, whatever connect, send and disconnect calls are made.
C14_SingleReceiveTask ==
  (IF TaskRunning THEN 1 ELSE 0) + orphans <= 1

\* The loop is suspended in a read that the buffered bytes cannot satisfy.
RxWaiting ==
  rxAvail - rxPos < (IF rxPc = "body" THEN rxNeed
                     ELSE IF use_tls THEN HEADER_SIZE ELSE SIZE_FIELD)

\* C15: the loop consumes the stream frame by frame.  However the socket
\* cuts the stream into chunks, no read fails, the packets decoded are the
\* frames sent, whole and in order, a new frame's read starts exactly where
\* the previous frame ended, and once the whole stream has arrived and the
\* loop waits again every frame has been decoded.
C15_FrameByFrame ==
  /\ rxPc # "failed"
  /\ Len(rxOut) <= Len(rxLens)
  /\ \A k \in 1..Len(rxOut) :
       rxOut[k] = [packet_id |-> k, body |-> Bytes(k, rxLens[k], "B", rxLens[k])]
  /\ rxPc = "header" =>
       rxPos = Len(Wire(use_tls, SubSeq(rxLens, 1, Len(rxOut))))
  /\ (rxAvail = Len(Wire(use_tls, rxLens)) /\ RxWaiting /\ rxPc # "failed") =>
       (Len(rxOut) = Len(rxLens) /\ rxPos = rxAvail)

\* A packet has been decoded and the loop is suspended in the body read of
\* the next legacy frame: a socket read ended inside that frame, with part of
\* it buffered.
C15_Witness ==
  /\ ~use_tls
  /\ Len(rxOut) >= 1
  /\ rxPc = "body"
  /\ rxPos < rxAvail
  /\ rxAvail - rxPos < rxNeed

\* The calls of one kind that full_connect() has started, in order.
Started(call) == SelectSeq(fcLog, LAMBDA en : en.call = call)

\* C16: checkin tries TLS on 443, TLS on the candidate port, legacy on the
\* candidate port, in that order, each entry of the list once with one
\* one-shot round trip; an attempt that raises, times out or has no host is
\* followed by the next entry; checkin returns at the first reply with a
\* host and returns that reply; it raises only after all three failed.
C16_CheckinOrder ==
  LET n == Len(ckTried)
      Expected(k) == IF k = 1 THEN [tls |-> TRUE, port |-> 443]
                     ELSE IF k = 2 THEN [tls |-> TRUE, port |-> ckPort]
                     ELSE [tls |-> FALSE, port |-> ckPort]
  IN /\ n <= 3
     /\ \A k \in 1..n : /\ ckTried[k].tls = Expected(k).tls
                        /\ ckTried[k].port = Expected(k).port
     /\ \A k \in 1..(n - 1) : ckTried[k].outcome # "host"
     /\ Len(Started("checkin")) = (IF fcPc = "checkin" THEN n + 1 ELSE n)
     /\ \A k \in 1..Len(Started("checkin")) :
          Started("checkin")[k] = Entry("checkin", Expected(k).tls, Expected(k).port)
     /\ fcPc = "checkin" =>
          (ckIdx = n + 1 /\ n < 3 /\ \A k \in 1..n : ckTried[k].outcome # "host")
     /\ ckData # NoData <=> (n >= 1 /\ ckTried[n].outcome = "host")
     /\ ckData # NoData => ckData.host # ""
     /\ ckErr.type = "ConnectionError" <=>
          (n = 3 /\ \A k \in 1..n : ckTried[k].outcome # "host")
     /\ (fcPc \notin {"idle", "booking", "checkin"} /\ n >= 1) =>
          (ckData # NoData \/ ckErr.type = "ConnectionError")

\* checkin returned the reply of its third attempt: TLS on 443 timed out and
\* TLS on the candidate port, a port other than 443, replied without a host.
C16_Witness ==
  /\ Len(ckTried) = 3
  /\ ckPort # 443
  /\ ckTried[1].outcome = "timeout"
  /\ ckTried[2].outcome = "nohost"
  /\ ckTried[3].outcome = "host"
  /\ ckData.host = "loco"

\* C17: the ConnectionError that checkin raises after every variant failed
\* carries the failure cause of each attempted variant.
C17_ErrorAggregatesCauses ==
  ckErr.type = "ConnectionError" =>
    /\ Len(ckErr.causes) = Len(ckTried)
    /\ \A k \in 1..Len(ckTried) : ckErr.causes[k] = ckTried[k]

\* C18: the mode checkin records is the mode of the variant that succeeded,
\* and the session is opened in exactly that mode: connect() is called with
\* it, sets _use_tls to it, and the session it opens is a TLS session if and
\* only if the successful variant was a TLS variant.
C18_SessionUsesCheckinMode ==
  ckData # NoData =>
    LET won == ckTried[Len(ckTried)] IN
    /\ won.outcome = "host"
    /\ ckData.use_tls = won.tls
    /\ Len(Started("connect")) = 1
    /\ Started("connect")[1].tls = won.tls
    /\ use_tls = won.tls
    /\ ConnectSucceeded => (encryptor <=> ~won.tls)
    /\ ConnectSucceeded => (written # <<>> /\ written[1] = HandshakeFrame <=> ~won.tls)
    /\ \A k \in 1..Len(fcLog) : fcLog[k].call = "login" => fcLog[k].tls = won.tls

\* TLS on 443 timed out, TLS on the candidate port raised, legacy on the
\* candidate port succeeded, and the session is connected in legacy mode with
\* the LOGINLIST request written.
C18_Witness ==
  /\ Len(ckTried) = 3
  /\ ckTried[1].outcome = "timeout"
  /\ ckTried[2].outcome = "raises"
  /\ ckTried[3].outcome = "host"
  /\ ~use_tls
  /\ connected
  /\ fcPc = "login"
  /\ Len(written) = 2

\* C19: full_connect never raises.  Once it is done it has returned True or
\* False: False when booking gave no hosts, when checkin raised, when
\* connect() raised and when login stored a zero user id or raised; True only
\* when login returned and stored a non-zero user id.
C19_FullConnectResult ==
  /\ fcRes # "raised"
  /\ fcPc = "done" <=> fcRes \in {"True", "False"}
  /\ fcPc # "done" => fcRes = "none"
  /\ fcPc = "done" =>
       /\ Started("checkin") = <<>> => fcRes = "False"
       /\ ckErr.type = "ConnectionError" => fcRes = "False"
       /\ (Started("connect") # <<>> /\ Started("login") = <<>>) => fcRes = "False"
       /\ (Started("login") # <<>> /\ pc[1] # "returned") => fcRes = "False"
       /\ user_id = 0 => fcRes = "False"
       /\ fcRes = "True" <=>
            (Started("login") # <<>> /\ pc[1] = "returned" /\ user_id # 0)

\* The LOGINLIST reply came back on a connected session with a zero user id
\* and full_connect returned False.
C19_Witness ==
  /\ fcPc = "done"
  /\ fcRes = "False"
  /\ pc[1] = "returned"
  /\ ret[1].packet_id = reqId[1]
  /\ user_id = 0
  /\ connected

\* The position of a call in full_connect()'s phase order.
Phase(call) ==
  IF call = "booking" THEN 1 ELSE IF call = "checkin" THEN 2
  ELSE IF call = "connect" THEN 3 ELSE 4

\* C20: full_connect runs discovery, assignment, session open, login in that
\* order and stops at the first hard stop: no checkin attempt when the host
\* list is empty, no session connection when checkin is exhausted, and no
\* LOGINLIST request unless connect() succeeded.
C20_PhaseOrder ==
  /\ \A j, k \in 1..Len(fcLog) : j < k => Phase(fcLog[j].call) <= Phase(fcLog[k].call)
  /\ Len(Started("booking")) = (IF fcPc = "idle" THEN 0 ELSE 1)
  /\ Len(Started("connect")) <= 1
  /\ Len(Started("login")) <= 1
  /\ fcHosts = <<>> => Started("checkin") = <<>>
  /\ (fcPc \notin {"idle", "booking"} /\ fcHosts # <<>>) => Started("checkin") # <<>>
  /\ Started("connect") # <<>> <=> ckData # NoData
  /\ ckErr.type = "ConnectionError" =>
       (Started("connect") = <<>> /\ conPc = "idle" /\ writer = "none")
  /\ Started("login") # <<>> =>
       (Started("connect") # <<>> /\ rlPc # "none" /\ writer # "none")
  /\ (\E k \in 1..Len(written) : written[k].kind = "request") => Started("login") # <<>>
  /\ fut[1] # "none" => Started("login") # <<>>
  /\ (fcPc = "done" /\ Started("connect") # <<>> /\ rlPc # "none") => Started("login") # <<>>

\* All four phases ran: booking, two checkin attempts, the session connect
\* and the LOGINLIST request, which is in flight.
C20_Witness ==
  /\ Len(fcLog) = 5
  /\ fcLog[5].call = "login"
  /\ fcLog[3].call = "checkin"
  /\ InFlight(1)
  /\ rlPc = "read"

\* C21: login() returns the reply body, also when the reply carries a zero
\* or absent user id; the session's user id is the reply's userId, 0 when
\* absent; and chat_rooms holds one room per chat id of chatDatas, with type,
\* last log id and last-seen log id of the entry stored under that id (of
\* the last one when two entries carry the same id).
C21_LoginRecords ==
  /\ (fcPc = "done" /\ pc[1] = "returned") => loginRet # NoBody
  /\ loginRet # NoBody =>
       LET cds == IF "chatDatas" \in DOMAIN loginRet THEN loginRet["chatDatas"] ELSE <<>>
           IdOf(k) == IF "chatId" \in DOMAIN cds[k] THEN cds[k]["chatId"] ELSE 0
           Last(id) == CHOOSE k \in 1..Len(cds) :
                         IdOf(k) = id /\ \A j \in (k + 1)..Len(cds) : IdOf(j) # id
       IN /\ pc[1] = "returned"
          /\ user_id = (IF "userId" \in DOMAIN loginRet THEN loginRet["userId"] ELSE 0)
          /\ DOMAIN chat_rooms = {IdOf(k) : k \in 1..Len(cds)}
          /\ \A id \in DOMAIN chat_rooms :
               LET cd == cds[Last(id)] IN
               chat_rooms[id] =
                 [chat_id |-> id,
                  type |-> IF "type" \in DOMAIN cd THEN cd["type"] ELSE "",
                  last_log_id |-> IF "lastLogId" \in DOMAIN cd THEN cd["lastLogId"] ELSE 0,
                  last_seen_log_id |->
                    IF "lastSeenLogId" \in DOMAIN cd THEN cd["lastSeenLogId"] ELSE 0]

\* login() returned a body without userId that lists two rooms: the user id
\* is 0 and both rooms are recorded.
C21_Witness ==
  /\ loginRet # NoBody
  /\ "userId" \notin DOMAIN loginRet
  /\ user_id = 0
  /\ DOMAIN chat_rooms = {11, 12}
  /\ chat_rooms[11].last_log_id = 5
  /\ chat_rooms[11].last_seen_log_id = 4

\* C22: the caller's credentials are only read: no step of booking, checkin,
\* connect, login, send, full_connect or disconnect changes a field.
C22_CredentialsReadOnly == [][credentials' = credentials]_vars

\* C23: the session's builder issues the ids 1, 2, 3, ... in build order: the
\* first build gets 1, every build gets one more than the build before it,
\* and no two requests of the session share an id.
C23_PacketIdsSequential ==
  /\ [](next_id = 1 + Cardinality({c \in Calls : pc[c] # "idle"}))
  /\ [](\A c \in Calls : pc[c] # "idle" => reqId[c] \in 1..(next_id - 1))
  /\ [](\A c, d \in Calls :
          (c # d /\ pc[c] # "idle" /\ pc[d] # "idle") => reqId[c] # reqId[d])
  /\ [][ \A c \in Calls :
           (pc[c] = "idle" /\ pc'[c] # "idle") =>
             /\ reqId'[c] = next_id
             /\ next_id' = next_id + 1
             /\ reqId'[c] = 1 + Cardinality({d \in Calls : pc[d] # "idle"}) ]_vars
  /\ [][ next_id' # next_id =>
           \E c \in Calls : pc[c] = "idle" /\ pc'[c] # "idle" ]_vars

\* Every call of the session has been built and two of them are in flight
\* with the ids 1 and 2.
C23_Witness ==
  /\ \A c \in Calls : pc[c] # "idle"
  /\ \A c \in Calls : reqId[c] = c
  /\ InFlight(1)
  /\ InFlight(2)
  /\ next_id = MaxSends + 1

\* decode was handed the whole encoding of the packet.
DecodedWhole == cdPc = "decoded" /\ cdIn = cdEnc

\* C24 as stated: a packet whose ASCII method has at most 11 bytes is
\* decoded from its own encoding with the same id, status, method, body
\* type and body.
C24_RoundTrip ==
  (DecodedWhole /\ Len(cdPkt.method) <= METHOD_SIZE)
    => (cdOut.err = "none" /\ cdOut.pkt = cdPkt)

\* C24: a packet whose ASCII method has at most 11 bytes and does not end
\* in a NUL byte is decoded from its own encoding with the same id, status,
\* method, body type and body.
C24_RoundTripNoTrailingNul ==
  (/\ DecodedWhole
   /\ Len(cdPkt.method) <= METHOD_SIZE
   /\ (cdPkt.method = <<>> \/ cdPkt.method[Len(cdPkt.method)] # 0))
    => (cdOut.err = "none" /\ cdOut.pkt = cdPkt)

\* An 11-byte method, a negative status and a two-element body came back.
C24_Witness ==
  /\ DecodedWhole
  /\ cdPkt.method = Letters(METHOD_SIZE)
  /\ cdPkt.status_code = -1
  /\ Len(cdPkt.body) = 2
  /\ cdOut.err = "none"
  /\ cdOut.pkt = cdPkt

\* C25: the bodyLength that decode_header reads from the first 22 bytes of
\* an encoded packet is the number of bytes after the header: the encoding
\* is exactly 22 + bodyLength bytes long.
C25_HeaderLengthMatchesBody ==
  (cdPc \in {"encoded", "decoded"} /\ cdHdr # NoResult)
    => (cdHdr.err = "none" /\ Len(cdEnc) = HEADER_SIZE + cdHdr.body_length)

\* The header of a packet with a two-element body was read: 7 body bytes.
C25_Witness ==
  /\ cdPc = "encoded"
  /\ Len(cdPkt.body) = 2
  /\ cdHdr.err = "none"
  /\ cdHdr.body_length = 7
  /\ Len(cdEnc) = 29

\* C26: decode fails, and returns no packet, when it is given fewer than 22
\* bytes or fewer body bytes than the header declares; it never puts a
\* shorter or empty body in their place.
C26_DecodeRejectsShortInput ==
  (/\ cdPc = "decoded"
   /\ \/ Len(cdIn) < HEADER_SIZE
      \/ UnLE(Slice(cdIn, 18, HEADER_SIZE)) > Len(cdIn) - HEADER_SIZE)
    => cdOut.err # "none"

\* C27: the encoding starts with a header of exactly 22 bytes, the body
\* following it; the method field is the method padded with NUL to 11 bytes,
\* or its first 11 bytes; a request built with no body carries the empty
\* document.
C27_HeaderShape ==
  cdPc \in {"encoded", "decoded"}
    => /\ Len(cdEnc) >= HEADER_SIZE
       /\ Slice(cdEnc, HEADER_SIZE, Len(cdEnc)) = BsonEncode(cdPkt.body)
       /\ \A i \in 1..METHOD_SIZE :
            cdEnc[6 + i] = IF i <= Len(cdPkt.method) THEN cdPkt.method[i] ELSE 0
       /\ cdArgs.body = None
            => Slice(cdEnc, HEADER_SIZE, Len(cdEnc)) = <<5, 0, 0, 0, 0>>

\* A request with a 12-byte method and no body was built and encoded.
C27_Witness ==
  /\ cdPc = "encoded"
  /\ cdArgs.body = None
  /\ Len(cdPkt.method) = METHOD_SIZE + 1
  /\ cdPkt.body = <<>>
  /\ Len(cdEnc) = HEADER_SIZE + 5

\* C28: for one encryptor and every plaintext, the empty one included,
\* decrypting the frame without its 4-byte size prefix gives the plaintext.
C28_DecryptInvertsEncrypt == crPc = "decrypted" => crOut = crPlain

\* A plaintext of more than one cipher block came back, unlike its ciphertext.
C28_Witness ==
  /\ crPc = "decrypted"
  /\ Len(crPlain) > IV_SIZE
  /\ crOut = crPlain
  /\ Slice(crFrame, SIZE_FIELD + IV_SIZE, Len(crFrame)) # crPlain

\* C29: a frame is size || iv || ciphertext, the 4-byte little-endian size
\* being 16 + len(ciphertext) and the ciphertext as long as the plaintext:
\* the size is the number of bytes after the prefix.
C29_FrameLayout ==
  crPc \in {"encrypted", "decrypted"}
    => /\ Len(crFrame) = SIZE_FIELD + IV_SIZE + Len(crPlain)
       /\ Slice(crFrame, SIZE_FIELD, SIZE_FIELD + IV_SIZE) = crIv
       /\ UnLE(Slice(crFrame, 0, SIZE_FIELD)) = IV_SIZE + Len(crPlain)
       /\ UnLE(Slice(crFrame, 0, SIZE_FIELD)) = Len(crFrame) - SIZE_FIELD

\* A 5-byte plaintext was framed: 25 bytes with a size field of 21.
C29_Witness ==
  /\ crPc = "encrypted"
  /\ Len(crPlain) = 5
  /\ Len(crFrame) = 25
  /\ crFrame[1] = 21

\* C30: in legacy mode connect() writes the 268-byte handshake (12 bytes of
\* fields and the 256-byte wrapped key) first on the connection and awaits
\* its flush before the session is marked connected and the receive task is
\* started, so every request frame follows the handshake; in TLS mode no
\* handshake is written.
C30_HandshakeFirst ==
  /\ [](writer # "none" =>
         IF use_tls
           THEN \A k \in 1..Len(written) : written[k].kind # "handshake"
           ELSE /\ written # <<>>
                /\ written[1].kind = "handshake"
                /\ written[1].size = 268
                /\ written[1].size = 12 + HANDSHAKE_KEY_SIZE
                /\ \A k \in 2..Len(written) : written[k].kind = "request")
  /\ [](conPc = "hsdrain" => (~connected /\ rlPc = "none"))
  /\ [][ (~use_tls /\ ((~connected /\ connected') \/ (rlPc = "none" /\ rlPc' # "none")))
           => (conPc = "hsdrain" /\ conPc' = "idle" /\ written # <<>>
               /\ written[1].kind = "handshake") ]_vars

\* A legacy session is connected, its receive task reads, and the handshake
\* and one request frame have been written, in that order.
C30_Witness ==
  /\ ~use_tls
  /\ connected
  /\ rlPc = "read"
  /\ Len(written) = 2
  /\ written[1].kind = "handshake"
  /\ written[1].size = 268
  /\ written[2].kind = "request"
\* C31: the session does not retry or reconnect by itself.  A request frame
\* is written at most once per send, frames are written only by a send that
\* starts or by connect(), and the session becomes connected, and a receive
\* task that ended is replaced, only in a step of a connect() call.
C31_NoRetryNoReconnect ==
  /\ [](\A i, j \in 1..Len(written) :
          (/\ written[i].kind = "request"
           /\ written[j].kind = "request"
           /\ written[i].packet_id = written[j].packet_id) => i = j)
  /\ [][ written' # written =>
           \/ \E c \in Calls : pc[c] = "idle" /\ pc'[c] # "idle"
           \/ conPc = "opening" ]_vars
  /\ [][ (~connected /\ connected') => conPc \in {"opening", "hsdrain"} ]_vars
  /\ [][ (rlPc = "ended" /\ rlPc' # "ended") => conPc \in {"opening", "hsdrain"} ]_vars

\* A request was written once, the loop ended on a read error, the send
\* timed out, and the session is still closed with that one frame written.
C31_Witness ==
  /\ ~connected
  /\ rlPc = "ended"
  /\ rlErr = "IncompleteReadError"
  /\ pc[1] = "TimeoutError"
  /\ Cardinality({i \in 1..Len(written) : written[i].kind = "request"}) = 1

\* C32: push dispatch is serial.  At most one handler invocation is in
\* progress, it belongs to the packet the loop is dispatching, and the loop
\* reads the next frame, resolves a reply or dispatches another push only
\* when every handler of the current push has finished.
C32_SerialDispatch ==
  /\ [](Cardinality(hRun) <= 1)
  /\ [](hRun # {} => (rlPc = "handler" /\ \A r \in hRun : r.pkt = rlPkt))
  /\ [][ (rlPc \in {"push", "handler"} /\ rlPc' \in {"read", "ended"}) =>
           /\ hRun = {}
           /\ rlIdx = Len(push_handlers[rlPkt.method])
           /\ Len(pushLog) = rlIdx ]_vars
  /\ [][ (\/ rlPkt' \notin {rlPkt, NoPkt}
          \/ \E id \in Calls : fut[id] # "result" /\ fut'[id] = "result") =>
           (rlPc = "read" /\ hRun = {}) ]_vars
  /\ [][ \A r \in hRun' \ hRun :
           r.call = 0 => (rlPc = "push" /\ hRun = {} /\ r.pkt = rlPkt) ]_vars

\* The second of two handlers of a pushed packet is suspended; the first
\* has finished.
C32_Witness ==
  /\ rlPc = "handler"
  /\ Len(push_handlers[rlPkt.method]) = 2
  /\ rlIdx = 2
  /\ Len(pushLog) = 1
  /\ Cardinality(hRun) = 1

\* C36: a send that a push handler issued and awaits is not left to time
\* out while the session is connected and the receive loop, which alone can
\* read its reply, is still held by that handler.
C36_HandlerSendNotStarved ==
  \A r \in hRun :
    r.call # 0 =>
      ~(/\ pc[r.call] = "TimeoutError"
        /\ rlPc = "handler"
        /\ connected
        /\ writer = "open"
        /\ \E i \in 1..Len(written) :
             written[i].kind = "request" /\ written[i].packet_id = reqId[r.call])

\* C34: a packet the loop decoded is handled by its id alone.  When the id
\* is in the pending map the loop removes that one slot and resolves it with
\* the packet, and dispatches nothing; otherwise it dispatches the packet as a
\* push and touches no slot.
C34_MatchedOrPush ==
  [][ rlPc = "read" =>
        /\ (pending' # pending /\ pending' \subseteq pending) =>
             \E id \in pending :
               /\ pending' = pending \ {id}
               /\ fut'[id] = "result"
               /\ futRes'[id].packet_id = id
               /\ rlPc' \in {"read", "ended"}
               /\ rlErr' = rlErr
        /\ rlPc' = "push" =>
             /\ rlPkt'.packet_id \notin pending
             /\ UNCHANGED mapVars ]_vars

\* C35: a send that fails while it writes or flushes its request leaves no
\* slot behind: the pending map is as it was before the call.
C35_FailedSendLeavesNoSlot ==
  [][ \A c \in Calls :
        /\ (pc[c] = "idle" /\ pc'[c] = "error") => pending' = pending
        /\ (pc[c] = "drain" /\ pc'[c] = "error") => reqId[c] \notin pending' ]_vars

\* C33: full_connect checks in at the first host of the host list and at the
\* first port of the configuration's port list; when the configuration has
\* no port list the port is the first of the built-in list, 5223, and when
\* the list is present but empty it is the default port 5223, and the checkin
\* goes on instead of failing.
C33_FirstHostFirstPort ==
  Started("checkin") # <<>> =>
    /\ ckHost = fcHosts[1]
    /\ (fcCfg.hasPorts /\ fcCfg.ports # <<>>) => ckPort = fcCfg.ports[1]
    /\ ~fcCfg.hasPorts => (ckPort = LOCO_PORTS[1] /\ ckPort = 5223)
    /\ (fcCfg.hasPorts /\ fcCfg.ports = <<>>) => (ckPort = DEFAULT_LOCO_PORT /\ ckPort = 5223)
    /\ \A k \in 1..Len(ckTried) : k > 1 => ckTried[k].port = ckPort

\* The configuration had an empty port list; the second attempt went to
\* port 5223 of the first host.
C33_Witness ==
  /\ fcCfg.hasPorts
  /\ fcCfg.ports = <<>>
  /\ fcHosts = <<"lsl1", "lsl2">>
  /\ ckHost = "lsl1"
  /\ Len(ckTried) = 2
  /\ ckTried[2].port = 5223

\* C37: whenever full_connect has returned False the session has no running
\* receive task and no open transport and is not marked connected; this
\* holds after a login with a zero user id and after a login that raised or
\* timed out.
C37_FalseLeavesSessionClosed ==
  (fcPc = "done" /\ fcRes = "False") =>
    /\ rlPc \notin {"read", "push"}
    /\ writer # "open"
    /\ ~connected

\* C38: a connect() whose open_connection fails raises and leaves the session
\* not connected, without receive task, and with the transport mode, the
\* reader/writer and the encryptor it had before the call.  On a session
\* whose connect() calls have all failed so far (no writer was ever stored)
\* and that is not inside connect(), these are the values of construction:
\* TLS mode, no writer, no encryptor.
C38_FailedOpenKeepsSession ==
  (conPc = "idle" /\ writer = "none") =>
    /\ ~connected
    /\ rlPc = "none"
    /\ use_tls = TRUE
    /\ ~encryptor

\* C39: the connection a one-shot exchange opened (booking and each checkin
\* attempt) is closed when the exchange ends, whether it ended with a reply,
\* with a read or decode error or with the cancellation by the 10-second
\* timeout: no probing connection is open when the next variant is tried
\* or when checkin returns or fails.
C39_OneshotConnectionClosed ==
  \A k \in 1..Len(oneshots) : oneshots[k].conn # "open"

\* C40: in every reachable state each key of the pending map is a packet id
\* the session's builder has already issued (1 <= key < next id), and each
\* send that waits for its reply has exactly one slot, under its own packet
\* id: its id is a key of the map and no other send was given that id.
C40_PendingKeysIssued ==
  /\ \A id \in pending : 1 <= id /\ id < next_id
  /\ \A c \in Calls :
       InFlight(c) =>
         /\ reqId[c] \in pending
         /\ \A d \in Calls : (d # c /\ pc[d] # "idle") => reqId[d] # reqId[c]

\* Two sends wait for their replies, each with the slot of its own id, and
\* the builder is at 3.
C40_Witness ==
  /\ InFlight(1)
  /\ InFlight(2)
  /\ pc[1] = "wait"
  /\ pc[2] = "wait"
  /\ pending = {reqId[1], reqId[2]}
  /\ reqId[1] # reqId[2]
  /\ next_id = 3

====
